---- MODULE Spec2Model ----
(***************************************************************************)
(* Verification model of the orchestration and resource-coordination layer *)
(* of Fin-NeuroSim: RateLimiter, ModelLoader, the two orchestrators        *)
(* (Mode A: FinNeuroSimOrchestrator, Mode B: FinNeuroSimOrchestratorHF),   *)
(* the synthesis stage and ContextBuilder.                                 *)
(*                                                                         *)
(* Each component has its own specification (SpecRL, SpecLoader, SpecB,    *)
(* SpecA, SpecCtx); a specification moves only its component's variables.  *)
(***************************************************************************)
EXTENDS Integers, Sequences, FiniteSets, TLC

\* ------------------------------------------------------------------------
\* Bounds of the model
\* ------------------------------------------------------------------------
\* Time is counted in ticks of 0.1 s, the buffer wait_if_needed adds.
MaxTime == 8
\* time_window_seconds handed to add_limit, in ticks
TimeWindow == 3
\* largest max_calls handed to add_limit
MaxLimit == 2
\* total number of wait_if_needed calls of one run
MaxWaitCalls == 4
MaxLiveCalls == 3
MaxLiveTime == 4
\* number of load_model/unload_model calls the loader's driver makes
MaxLoaderOps == 4
\* longest action_plan list a synthesis provider returns
MaxPlanItems == 1
\* longest agent_outputs list handed to compute_dynamic_confidence
MaxOutputs == 2
\* longest source_summary of an agent output
MaxSources == 1
\* longest agent_outputs list handed to check_contradictions on its own
MaxBreakerOutputs == 2
\* longest agent_outputs list handed to calculate_inter_agent_agreement
MaxAgreeOutputs == 3
MaxAgeSteps == 340

\* the 0.1 s that wait_if_needed adds to the remaining wait: one tick
Buffer == 1

VARIABLES
    \* RateLimiter
    limits,        \* _limits: name -> [max_calls, time_window]
    call_history,  \* _call_history: name -> sequence of recorded timestamps
    now,           \* time.time()
    rl_pc,         \* caller -> "idle" | "sleeping" (inside asyncio.sleep)
    rl_name,       \* caller -> api_name of the call it is suspended in
    rl_wake,       \* caller -> earliest time asyncio.sleep may return
    rl_calls,      \* number of wait_if_needed calls started so far
    rl_last,       \* caller and api_name of the latest wait_if_needed call
    \* ModelLoader
    current_model,       \* self.current_model (identity of the model object)
    current_tokenizer,   \* self.current_tokenizer
    current_model_name,  \* self.current_model_name
    resident,            \* identities whose weights occupy memory
    ml_loading,          \* identity load_model is loading right now, or None
    ml_last,             \* how the last load_model/unload_model call ended
    ml_before,           \* current_model_name when that call was entered
    ml_ops,              \* number of loader calls made by the driver
    ml_run,           \* the unload calls made in a row: how many, from which model
    \* Mode B: FinNeuroSimOrchestratorHF.process_query, one call per query
    b_pc,             \* query -> position of its process_query call
    b_running,        \* the call that holds the event loop, or None
    b_err,            \* query -> exception that left the try block
    b_raised,         \* query -> exception the caller received
    b_outcome,        \* query -> "none" | "report" | "raised"
    b_s1risk,         \* query -> stage1_report.risk_level
    b_s2idx,          \* query -> index of the MODEL_NAMES loop of synthesize
    b_loaded,         \* query -> model_loaded flag of synthesize
    b_plan,           \* query -> action_plan of the returned FinalReport
    b_tried,          \* query -> load_model calls of the stage under way
    b_trace,          \* query -> the steps of process_query completed so far
    last_stage1_risk, \* Stage2Llama._last_stage1_risk
    \* Mode A: FinNeuroSimOrchestrator.process_query
    a_pc,             \* position of the process_query call
    a_ctx,            \* context returned by build_context
    a_agents,         \* self.agents is loaded
    a_results,        \* agent -> state of its analyze task in the gather
    a_outputs,        \* agent_outputs: the survivors of stage 1
    a_cb_input,       \* list handed to check_contradictions
    a_event,          \* circuit_event
    a_rec,            \* arbiter_recommendation
    a_confmap,        \* confidence_map
    a_synth,          \* arguments of the synthesize call, once made
    a_outcome,        \* "none" | "report" | "raised"
    a_err,            \* exception the caller received
    a_plan,           \* action_plan of the returned FinalReport
    \* ContextBuilder.build_context
    c_pc,             \* position of the build_context call
    c_assets,         \* intent.assets
    c_res,            \* results of the outer gather, in task order
    c_sub,            \* indicator -> state of its fetch in the macro gather
    c_market,         \* context["market_data"]
    c_macro,          \* context["macro_data"]
    c_news,           \* context["news_data"]
    c_fresh,          \* context["data_freshness"]
    \* calls of the pure functions
    fn_in,            \* arguments of the call
    fn_out,           \* value the call returned
    fn_done           \* the call has returned

rlVars == <<limits, call_history, now, rl_pc, rl_name, rl_wake, rl_calls,
            rl_last>>
mlVars == <<current_model, current_tokenizer, current_model_name, resident,
            ml_loading>>
drvVars == <<ml_last, ml_before, ml_ops, ml_run>>

bVars == <<b_pc, b_running, b_err, b_raised, b_outcome, b_s1risk, b_s2idx, b_loaded,
           b_plan, b_tried, b_trace, last_stage1_risk>>

aVars == <<a_pc, a_ctx, a_agents, a_results, a_outputs, a_cb_input, a_event,
           a_rec, a_confmap, a_synth, a_outcome, a_err, a_plan>>

cVars == <<c_pc, c_assets, c_res, c_sub, c_market, c_macro, c_news, c_fresh>>

fnVars == <<fn_in, fn_out, fn_done>>

vars == <<rlVars, mlVars, drvVars, bVars, aVars, cVars, fnVars>>

\* what the steps of one component leave alone
notRL == <<mlVars, drvVars, bVars, aVars, cVars, fnVars>>
notDrv == <<rlVars, bVars, aVars, cVars, fnVars>>
notB == <<rlVars, drvVars, aVars, cVars, fnVars>>
notA == <<rlVars, mlVars, drvVars, bVars, cVars, fnVars>>
notC == <<rlVars, mlVars, drvVars, bVars, aVars, fnVars>>
notFn == <<rlVars, mlVars, drvVars, bVars, aVars, cVars>>

\* ------------------------------------------------------------------------
\* RateLimiter (data_sources/rate_limiter.py)
\* ------------------------------------------------------------------------
ApiNames == {"alpha_vantage", "fred"}
Callers == {"c1", "c2"}
NoLimit == [max_calls |-> 0, time_window |-> 0]

Registered(n) == limits[n] # NoLimit

RECURSIVE SeqFilterGT(_, _)
\* [t for t in s if t > cutoff]
SeqFilterGT(s, cutoff) ==
    IF s = <<>> THEN <<>>
    ELSE IF Head(s) > cutoff
         THEN <<Head(s)>> \o SeqFilterGT(Tail(s), cutoff)
         ELSE SeqFilterGT(Tail(s), cutoff)

SeqMin(s) == CHOOSE m \in {s[i] : i \in DOMAIN s} :
                 \A i \in DOMAIN s : m <= s[i]

\* the list comprehension of wait_if_needed: drop calls at or before cutoff
Pruned(n) == SeqFilterGT(call_history[n], now - limits[n].time_window)

\* remaining wait computed by wait_if_needed when the quota is saturated
WaitTime(n) == limits[n].time_window - (now - SeqMin(Pruned(n))) + Buffer

RLInitVars ==
    /\ limits = [n \in ApiNames |-> NoLimit]
    /\ call_history = [n \in ApiNames |-> <<>>]
    /\ now = 0
    /\ rl_pc = [c \in Callers |-> "idle"]
    /\ rl_name = [c \in Callers |-> "alpha_vantage"]
    /\ rl_wake = [c \in Callers |-> 0]
    /\ rl_calls = 0
    /\ rl_last = [caller |-> "none", name |-> "none"]

\* add_limit: the API clients register each name once, in their constructors
AddLimit(n, mc, tw) ==
    /\ ~Registered(n)
    /\ rl_calls = 0
    /\ limits' = [limits EXCEPT ![n] = [max_calls |-> mc, time_window |-> tw]]
    /\ UNCHANGED <<call_history, now, rl_pc, rl_name, rl_wake, rl_calls,
                   rl_last>>
    /\ UNCHANGED notRL

\* wait_if_needed without the test of lines 60-61: the defaultdict supplies
\* an empty history for a name without a limit and the call is recorded
WaitIfNeeded_RecordAll(c, n) ==
    /\ rl_pc[c] = "idle"
    /\ rl_calls < MaxWaitCalls
    /\ rl_calls' = rl_calls + 1
    /\ rl_last' = [caller |-> c, name |-> n]
    /\ IF ~Registered(n)
       THEN /\ call_history' =
                   [call_history EXCEPT ![n] = Append(call_history[n], now)]
            /\ UNCHANGED <<rl_pc, rl_name, rl_wake>>
       ELSE IF Len(Pruned(n)) >= limits[n].max_calls /\ WaitTime(n) > 0
            THEN /\ call_history' = [call_history EXCEPT ![n] = Pruned(n)]
                 /\ rl_pc' = [rl_pc EXCEPT ![c] = "sleeping"]
                 /\ rl_name' = [rl_name EXCEPT ![c] = n]
                 /\ rl_wake' = [rl_wake EXCEPT ![c] = now + WaitTime(n)]
            ELSE /\ call_history' =
                        [call_history EXCEPT ![n] = Append(Pruned(n), now)]
                 /\ UNCHANGED <<rl_pc, rl_name, rl_wake>>
    /\ UNCHANGED <<limits, now>>
    /\ UNCHANGED notRL

\* wait_if_needed up to its first suspension point (or to its return)
WaitIfNeeded(c, n) ==
    /\ rl_pc[c] = "idle"
    /\ rl_calls < MaxWaitCalls
    /\ rl_calls' = rl_calls + 1
    /\ rl_last' = [caller |-> c, name |-> n]
    /\ IF ~Registered(n)
       THEN UNCHANGED <<call_history, rl_pc, rl_name, rl_wake>>
       ELSE IF Len(Pruned(n)) >= limits[n].max_calls /\ WaitTime(n) > 0
            THEN /\ call_history' = [call_history EXCEPT ![n] = Pruned(n)]
                 /\ rl_pc' = [rl_pc EXCEPT ![c] = "sleeping"]
                 /\ rl_name' = [rl_name EXCEPT ![c] = n]
                 /\ rl_wake' = [rl_wake EXCEPT ![c] = now + WaitTime(n)]
            ELSE /\ call_history' =
                        [call_history EXCEPT ![n] = Append(Pruned(n), now)]
                 /\ UNCHANGED <<rl_pc, rl_name, rl_wake>>
    /\ UNCHANGED <<limits, now>>
    /\ UNCHANGED notRL

\* wait_if_needed with "while" for the "if" of line 77: after the sleep the
\* saturation test is made again and the caller may sleep again
WaitResume_Recheck(c) ==
    /\ rl_pc[c] = "sleeping"
    /\ now >= rl_wake[c]
    /\ IF Len(Pruned(rl_name[c])) >= limits[rl_name[c]].max_calls
          /\ WaitTime(rl_name[c]) > 0
       THEN /\ call_history' = [call_history EXCEPT
                                   ![rl_name[c]] = Pruned(rl_name[c])]
            /\ rl_wake' = [rl_wake EXCEPT
                              ![c] = now + WaitTime(rl_name[c])]
            /\ UNCHANGED rl_pc
       ELSE /\ call_history' =
                   [call_history EXCEPT
                       ![rl_name[c]] = Append(Pruned(rl_name[c]), now)]
            /\ rl_pc' = [rl_pc EXCEPT ![c] = "idle"]
            /\ UNCHANGED rl_wake
    /\ UNCHANGED <<limits, now, rl_name, rl_calls, rl_last>>
    /\ UNCHANGED notRL

\* asyncio.sleep returns; the call records time.time() and returns
WaitResume(c) ==
    /\ rl_pc[c] = "sleeping"
    /\ now >= rl_wake[c]
    /\ call_history' = [call_history EXCEPT
                           ![rl_name[c]] = Append(call_history[rl_name[c]], now)]
    /\ rl_pc' = [rl_pc EXCEPT ![c] = "idle"]
    /\ UNCHANGED <<limits, now, rl_name, rl_wake, rl_calls, rl_last>>
    /\ UNCHANGED notRL

\* the clock advances (past MaxTime only until the pending sleeps are over)
Tick ==
    /\ \/ now < MaxTime
       \/ \E c \in Callers : rl_pc[c] = "sleeping" /\ now < rl_wake[c]
    /\ now' = now + 1
    /\ UNCHANGED <<limits, call_history, rl_pc, rl_name, rl_wake, rl_calls,
                   rl_last>>
    /\ UNCHANGED notRL

RLNext ==
    \/ \E n \in ApiNames, mc \in 1..MaxLimit : AddLimit(n, mc, TimeWindow)
    \/ \E c \in Callers, n \in ApiNames : WaitIfNeeded(c, n)
    \/ \E c \in Callers : WaitResume(c)
    \/ Tick

\* ------------------------------------------------------------------------
\* ModelLoader (llm/model_loader.py)
\* ------------------------------------------------------------------------
None == "None"

\* Stage1Mistral.MODEL_NAME
Stage1ModelName == "Mistral-7B-v0.3"
\* Stage2Llama.MODEL_NAMES, in order of preference
Stage2ModelNames == <<"Mistral-7B-Instruct-v0.2", "Mistral-7B-v0.3",
                      "Phi-3-medium-4k-instruct", "Meta-Llama-3-8B-Instruct">>
ModelNames == {Stage1ModelName} \cup
              {Stage2ModelNames[i] : i \in DOMAIN Stage2ModelNames}

MLInitVars ==
    /\ current_model = None
    /\ current_tokenizer = None
    /\ current_model_name = None
    /\ resident = {}
    /\ ml_loading = None

\* is_model_loaded(model_name=None)
IsModelLoaded == current_model # None
\* is_model_loaded(model_name)
IsModelLoadedNamed(name) == current_model_name = name
\* get_current_model() returns a (model, tokenizer) pair, not None
HasCurrentModel == current_model # None /\ current_tokenizer # None

\* unload_model resetting current_model and current_tokenizer only
UnloadModel_KeepName ==
    IF current_model # None
    THEN /\ current_model' = None
         /\ current_tokenizer' = None
         /\ resident' = resident \ {current_model}
         /\ UNCHANGED current_model_name
    ELSE UNCHANGED <<current_model, current_tokenizer, current_model_name,
                     resident>>

\* unload_model: drop model and tokenizer, reset the three fields, reclaim
\* memory (gc.collect, cuda.empty_cache); nothing to do when nothing is loaded
UnloadModel ==
    IF current_model # None
    THEN /\ current_model' = None
         /\ current_tokenizer' = None
         /\ current_model_name' = None
         /\ resident' = resident \ {current_model}
    ELSE UNCHANGED <<current_model, current_tokenizer, current_model_name,
                     resident>>

\* load_model without its lines 56-58: the resident model is kept
LoadModelBegin_NoUnload(name) ==
    /\ ml_loading = None
    /\ ml_loading' = name
    /\ UNCHANGED <<current_model, current_tokenizer, current_model_name,
                   resident>>

\* load_model, lines 55-60: a resident model is unloaded first, then the
\* load of model_name starts
LoadModelBegin(name) ==
    /\ ml_loading = None
    /\ UnloadModel
    /\ ml_loading' = name

\* load_model storing the tokenizer in its field as soon as it is loaded,
\* before the model's from_pretrained: a failed load keeps the tokenizer
LoadModelEnd_KeepTokenizer(ok) ==
    /\ ml_loading # None
    /\ ml_loading' = None
    /\ IF ok
       THEN /\ current_model' = ml_loading
            /\ current_tokenizer' = ml_loading
            /\ current_model_name' = ml_loading
            /\ resident' = resident \cup {ml_loading}
       ELSE /\ current_tokenizer' = ml_loading
            /\ resident' = resident \cup {ml_loading}
            /\ UNCHANGED <<current_model, current_model_name>>

\* load_model, lines 70-120: from_pretrained of tokenizer and model either
\* both succeed (the fields are set and the pair returned) or one raises
\* (logged and re-raised, the fields are left alone)
LoadModelEnd(ok) ==
    /\ ml_loading # None
    /\ ml_loading' = None
    /\ IF ok
       THEN /\ current_model' = ml_loading
            /\ current_tokenizer' = ml_loading
            /\ current_model_name' = ml_loading
            /\ resident' = resident \cup {ml_loading}
       ELSE UNCHANGED <<current_model, current_tokenizer, current_model_name,
                        resident>>

\* Driver of the loader's public interface: any caller, any order
DrvInitVars ==
    /\ ml_last = "none"
    /\ ml_before = None
    /\ ml_ops = 0
    /\ ml_run = [count |-> 0, from |-> None]

DrvLoadBegin(name) ==
    /\ ml_ops < MaxLoaderOps
    /\ LoadModelBegin(name)
    /\ ml_ops' = ml_ops + 1
    /\ ml_last' = "loading"
    /\ ml_before' = current_model_name
    /\ ml_run' = [count |-> 0, from |-> None]
    /\ UNCHANGED notDrv

DrvLoadEnd(ok) ==
    /\ LoadModelEnd(ok)
    /\ ml_last' = IF ok THEN "returned" ELSE "raised"
    /\ UNCHANGED <<ml_before, ml_ops, ml_run>>
    /\ UNCHANGED notDrv

DrvUnload ==
    /\ ml_ops < MaxLoaderOps
    /\ ml_loading = None
    /\ UnloadModel
    /\ ml_ops' = ml_ops + 1
    /\ ml_last' = "unloaded"
    /\ ml_before' = current_model_name
    /\ ml_run' = IF ml_run.count = 0
                 THEN [count |-> 1, from |-> current_model_name]
                 ELSE [ml_run EXCEPT !.count = 2]
    /\ UNCHANGED ml_loading
    /\ UNCHANGED notDrv

LoaderNext ==
    \/ \E name \in ModelNames : DrvLoadBegin(name)
    \/ \E ok \in BOOLEAN : DrvLoadEnd(ok)
    \/ DrvUnload

\* ------------------------------------------------------------------------
\* Synthesis output handling (llm/stage2_llama.py, agents/synthesis_agent.py)
\* ------------------------------------------------------------------------
RiskLevels == {"critical", "high", "medium", "low"}

\* an entry of the provider's action_plan list: a dict with a non-empty
\* action, a dict whose action is missing or blank, a non-empty string
PlanItems == {"dict", "blank", "str"}
PlanData == UNION {[1..k -> PlanItems] : k \in 0..MaxPlanItems}

\* The shapes of a synthesis provider's response text.
\*   json      the text holds a JSON object that json.loads accepts
\*   long      len(response) >= 300
\*   rationale the JSON's strategic_rationale: absent, under or from 300 chars
\*   conf      the JSON's overall_confidence: absent, inside or outside [0,1]
\*   plan      the JSON's action_plan ("absent" is modelled as the empty list,
\*             which is what .get("action_plan", []) makes of it)
Responses ==
    {r \in [json : BOOLEAN, long : BOOLEAN,
            rationale : {"absent", "short", "long"},
            conf : {"absent", "ok", "out"}, plan : PlanData] :
        /\ (r.rationale = "long" => r.long)
        /\ (~r.json => r.rationale = "absent" /\ r.conf = "absent"
                         /\ r.plan = <<>>)}

\* _parse_text_response: strategic_rationale is the response itself,
\* overall_confidence 0.6, action_plan []
ParseTextResponse(r) ==
    [rationale_ok |-> r.long, conf_ok |-> TRUE, plan |-> <<>>]

\* _parse_llm_response followed by the .get(...) defaults of synthesize:
\* rationale_ok is len(strategic_rationale) >= 300, conf_ok is
\* 0 <= overall_confidence <= 1
ParseLLMResponse(r) ==
    IF r.json
    THEN [rationale_ok |-> IF r.rationale = "absent" THEN r.long
                           ELSE r.rationale = "long",
          conf_ok |-> r.conf # "out",
          plan |-> r.plan]
    ELSE ParseTextResponse(r)

\* FinalReport(...) validates: strategic_rationale min_length=300,
\* overall_confidence ge=0.0 le=1.0; a violation raises ValidationError
FinalReportValid(sr) == sr.rationale_ok /\ sr.conf_ok

RECURSIVE KeepUsable(_)
\* Stage2Llama._parse_action_plan, lines 352-374: dicts with an action and
\* non-blank strings become entries, the rest is skipped
KeepUsable(data) ==
    IF data = <<>> THEN <<>>
    ELSE IF Head(data) \in {"dict", "str"}
         THEN <<"provider">> \o KeepUsable(Tail(data))
         ELSE KeepUsable(Tail(data))

\* Stage2Llama._parse_action_plan(data) with _last_stage1_risk = risk
ParseActionPlanB(data, risk) ==
    IF data = <<>>
    THEN IF risk \in {"critical", "high"} THEN <<"default_high">> ELSE <<>>
    ELSE IF KeepUsable(data) = <<>> THEN <<"default_medium">>
         ELSE KeepUsable(data)

\* SynthesisAgent._parse_action_plan(data): one entry per dict or string
ParseActionPlanA(data) == [i \in DOMAIN data |-> "provider"]

\* ------------------------------------------------------------------------
\* Mode B: FinNeuroSimOrchestratorHF.process_query (core/orchestrator_hf.py)
\* with Stage1Mistral.analyze and Stage2Llama.synthesize
\* ------------------------------------------------------------------------
Queries == {"q1", "q2"}

BInitVars ==
    /\ b_pc = [q \in Queries |-> "idle"]
    /\ b_running = None
    /\ b_err = [q \in Queries |-> None]
    /\ b_raised = [q \in Queries |-> None]
    /\ b_outcome = [q \in Queries |-> "none"]
    /\ b_s1risk = [q \in Queries |-> None]
    /\ b_s2idx = [q \in Queries |-> 0]
    /\ b_loaded = [q \in Queries |-> FALSE]
    /\ b_plan = [q \in Queries |-> <<>>]
    /\ b_tried = [q \in Queries |-> <<>>]
    /\ b_trace = [q \in Queries |-> <<>>]
    /\ last_stage1_risk = None

BGoto(q, pc) == b_pc' = [b_pc EXCEPT ![q] = pc]
\* an exception e leaves the try block: control goes to the except clause
BRaise(q, e) ==
    /\ b_pc' = [b_pc EXCEPT ![q] = "except"]
    /\ b_err' = [b_err EXCEPT ![q] = e]

\* process_query is called: intent analysis runs without suspending, then
\* the call awaits build_context and gives up the event loop
BStart(q) ==
    /\ b_pc[q] = "idle"
    /\ b_running = None
    /\ BGoto(q, "context")
    /\ UNCHANGED <<b_running, b_err, b_raised, b_outcome, b_s1risk, b_s2idx, b_loaded,
                   b_plan, last_stage1_risk>>
    /\ UNCHANGED b_tried
    /\ UNCHANGED b_trace
    /\ UNCHANGED <<mlVars, notB>>

\* build_context completes (or raises); the call resumes and runs on without
\* another suspension point until it returns or raises
BContextDone(q, ok) ==
    /\ b_pc[q] = "context"
    /\ b_running = None
    /\ b_running' = q
    /\ IF ok THEN BGoto(q, "compress") /\ UNCHANGED b_err
       ELSE BRaise(q, "context_error")
    /\ UNCHANGED <<b_raised, b_outcome, b_s1risk, b_s2idx, b_loaded, b_plan,
                   last_stage1_risk>>
    /\ UNCHANGED b_tried
    /\ UNCHANGED b_trace
    /\ UNCHANGED <<mlVars, notB>>

\* context_compressor.compress
BCompress(q, ok) ==
    /\ b_pc[q] = "compress"
    /\ b_running = q
    /\ IF ok THEN BGoto(q, "s1_check") /\ UNCHANGED b_err
       ELSE BRaise(q, "compress_error")
    /\ UNCHANGED <<b_running, b_raised, b_outcome, b_s1risk, b_s2idx, b_loaded,
                   b_plan, last_stage1_risk>>
    /\ UNCHANGED b_tried
    /\ UNCHANGED b_trace
    /\ UNCHANGED <<mlVars, notB>>

\* Stage1Mistral.analyze, lines 88-90: load MODEL_NAME unless it is loaded
BStage1Check(q) ==
    /\ b_pc[q] = "s1_check"
    /\ b_running = q
    /\ IF ~IsModelLoadedNamed(Stage1ModelName)
       THEN LoadModelBegin(Stage1ModelName) /\ BGoto(q, "s1_loading")
       ELSE BGoto(q, "s1_infer") /\ UNCHANGED mlVars
    /\ UNCHANGED <<b_running, b_err, b_raised, b_outcome, b_s1risk, b_s2idx, b_loaded,
                   b_plan, last_stage1_risk>>
    /\ UNCHANGED b_tried
    /\ UNCHANGED b_trace
    /\ UNCHANGED notB

\* analyze with a suspension point after load_model (an awaited inference):
\* the event loop is given up while the stage-1 model is loaded
BStage1Loaded_Yield(q, ok) ==
    /\ b_pc[q] = "s1_loading"
    /\ b_running = q
    /\ b_running' = None
    /\ LoadModelEnd(ok)
    /\ IF ok THEN BGoto(q, "s1_infer") /\ UNCHANGED b_err
       ELSE BRaise(q, "stage1_load_error")
    /\ UNCHANGED <<b_raised, b_outcome, b_s1risk, b_s2idx, b_loaded,
                   b_plan, last_stage1_risk>>
    /\ b_tried' = [b_tried EXCEPT ![q] =
                       Append(@, [name |-> ml_loading, ok |-> ok])]
    /\ b_trace' = [b_trace EXCEPT ![q] =
                       IF ok THEN Append(@, "stage1_load") ELSE @]
    /\ UNCHANGED notB

\* load_model(MODEL_NAME) returns or raises; stage 1 has no fallback
BStage1Loaded(q, ok) ==
    /\ b_pc[q] = "s1_loading"
    /\ b_running = q
    /\ LoadModelEnd(ok)
    /\ IF ok THEN BGoto(q, "s1_infer") /\ UNCHANGED b_err
       ELSE BRaise(q, "stage1_load_error")
    /\ UNCHANGED <<b_running, b_raised, b_outcome, b_s1risk, b_s2idx, b_loaded,
                   b_plan, last_stage1_risk>>
    /\ b_tried' = [b_tried EXCEPT ![q] =
                       Append(@, [name |-> ml_loading, ok |-> ok])]
    /\ b_trace' = [b_trace EXCEPT ![q] = IF ok THEN Append(@, "stage1_load") ELSE @]
    /\ UNCHANGED notB

\* Stage1Mistral.analyze, lines 92-155: inference and AgentOutput; an
\* exception is logged and re-raised
BStage1Infer(q, ok, risk) ==
    /\ b_pc[q] = "s1_infer"
    /\ b_running = q
    /\ IF ok
       THEN /\ BGoto(q, "s1_unload")
            /\ b_s1risk' = [b_s1risk EXCEPT ![q] = risk]
            /\ UNCHANGED b_err
       ELSE /\ BRaise(q, "stage1_infer_error")
            /\ UNCHANGED b_s1risk
    /\ UNCHANGED <<b_running, b_raised, b_outcome, b_s2idx, b_loaded, b_plan,
                   last_stage1_risk>>
    /\ UNCHANGED b_tried
    /\ b_trace' = [b_trace EXCEPT ![q] = IF ok THEN Append(@, "stage1_call") ELSE @]
    /\ UNCHANGED <<mlVars, notB>>

\* process_query without its line 79: stage 1's model stays loaded while
\* the confidence scores are computed
BStage1Unload_Skip(q) ==
    /\ b_pc[q] = "s1_unload"
    /\ b_running = q
    /\ BGoto(q, "confidence")
    /\ UNCHANGED <<b_running, b_err, b_raised, b_outcome, b_s1risk, b_s2idx,
                   b_loaded, b_plan, last_stage1_risk>>
    /\ UNCHANGED <<b_tried, b_trace>>
    /\ UNCHANGED <<mlVars, notB>>

\* process_query line 79: unload_model after stage 1
BStage1Unload(q) ==
    /\ b_pc[q] = "s1_unload"
    /\ b_running = q
    /\ UnloadModel
    /\ BGoto(q, "confidence")
    /\ UNCHANGED ml_loading
    /\ UNCHANGED <<b_running, b_err, b_raised, b_outcome, b_s1risk, b_s2idx, b_loaded,
                   b_plan, last_stage1_risk>>
    /\ UNCHANGED b_tried
    /\ b_trace' = [b_trace EXCEPT ![q] = Append(@, "unload")]
    /\ UNCHANGED notB

\* process_query lines 82-86: compute_dynamic_confidence([stage1_report])
BConfidence(q) ==
    /\ b_pc[q] = "confidence"
    /\ b_running = q
    /\ BGoto(q, "s2_check")
    /\ UNCHANGED <<b_running, b_err, b_raised, b_outcome, b_s1risk, b_s2idx, b_loaded,
                   b_plan, last_stage1_risk>>
    /\ UNCHANGED b_tried
    /\ b_trace' = [b_trace EXCEPT ![q] = Append(@, "confidence")]
    /\ UNCHANGED <<mlVars, notB>>

\* Stage2Llama.synthesize, lines 98-107: remember the stage-1 risk; when no
\* model is loaded enter the fallback loop over MODEL_NAMES
BStage2Check(q) ==
    /\ b_pc[q] = "s2_check"
    /\ b_running = q
    /\ last_stage1_risk' = b_s1risk[q]
    /\ IF ~IsModelLoaded
       THEN /\ BGoto(q, "s2_try")
            /\ b_s2idx' = [b_s2idx EXCEPT ![q] = 1]
            /\ b_loaded' = [b_loaded EXCEPT ![q] = FALSE]
       ELSE /\ BGoto(q, "s2_get")
            /\ UNCHANGED <<b_s2idx, b_loaded>>
    /\ UNCHANGED <<b_running, b_err, b_raised, b_outcome, b_s1risk, b_plan>>
    /\ b_tried' = [b_tried EXCEPT ![q] = <<>>]
    /\ UNCHANGED b_trace
    /\ UNCHANGED <<mlVars, notB>>

\* synthesize, lines 108-122: next turn of the loop, or its end; after the
\* loop, RuntimeError unless some identity loaded
BStage2Try(q) ==
    /\ b_pc[q] = "s2_try"
    /\ b_running = q
    /\ IF b_s2idx[q] <= Len(Stage2ModelNames)
       THEN /\ LoadModelBegin(Stage2ModelNames[b_s2idx[q]])
            /\ BGoto(q, "s2_loading")
            /\ UNCHANGED b_err
       ELSE /\ UNCHANGED mlVars
            /\ IF ~b_loaded[q] THEN BRaise(q, "no_model_loaded")
               ELSE BGoto(q, "s2_get") /\ UNCHANGED b_err
    /\ UNCHANGED <<b_running, b_raised, b_outcome, b_s1risk, b_s2idx, b_loaded,
                   b_plan, last_stage1_risk>>
    /\ UNCHANGED b_tried
    /\ UNCHANGED b_trace
    /\ UNCHANGED notB

\* the loop of synthesize without its break: after a load_model that
\* returned, the next identity is tried as well
BStage2Loaded_NoBreak(q, ok) ==
    /\ b_pc[q] = "s2_loading"
    /\ b_running = q
    /\ LoadModelEnd(ok)
    /\ b_loaded' = [b_loaded EXCEPT ![q] = b_loaded[q] \/ ok]
    /\ b_s2idx' = [b_s2idx EXCEPT ![q] = b_s2idx[q] + 1]
    /\ BGoto(q, "s2_try")
    /\ UNCHANGED <<b_running, b_err, b_raised, b_outcome, b_s1risk, b_plan,
                   last_stage1_risk>>
    /\ b_tried' = [b_tried EXCEPT ![q] =
                       Append(@, [name |-> ml_loading, ok |-> ok])]
    /\ b_trace' = [b_trace EXCEPT ![q] = IF ok THEN Append(@, "stage2_load") ELSE @]
    /\ UNCHANGED notB

\* synthesize, lines 111-117: load_model returned (break) or raised (continue)
BStage2Loaded(q, ok) ==
    /\ b_pc[q] = "s2_loading"
    /\ b_running = q
    /\ LoadModelEnd(ok)
    /\ IF ok
       THEN /\ b_loaded' = [b_loaded EXCEPT ![q] = TRUE]
            /\ BGoto(q, "s2_get")
            /\ UNCHANGED b_s2idx
       ELSE /\ b_s2idx' = [b_s2idx EXCEPT ![q] = b_s2idx[q] + 1]
            /\ BGoto(q, "s2_try")
            /\ UNCHANGED b_loaded
    /\ UNCHANGED <<b_running, b_err, b_raised, b_outcome, b_s1risk, b_plan,
                   last_stage1_risk>>
    /\ b_tried' = [b_tried EXCEPT ![q] =
                       Append(@, [name |-> ml_loading, ok |-> ok])]
    /\ b_trace' = [b_trace EXCEPT ![q] = IF ok THEN Append(@, "stage2_load") ELSE @]
    /\ UNCHANGED notB

\* synthesize, lines 124-127: get_current_model() must not be None
BStage2Get(q) ==
    /\ b_pc[q] = "s2_get"
    /\ b_running = q
    /\ IF HasCurrentModel THEN BGoto(q, "s2_infer") /\ UNCHANGED b_err
       ELSE BRaise(q, "model_missing")
    /\ UNCHANGED <<b_running, b_raised, b_outcome, b_s1risk, b_s2idx, b_loaded,
                   b_plan, last_stage1_risk>>
    /\ UNCHANGED b_tried
    /\ UNCHANGED b_trace
    /\ UNCHANGED <<mlVars, notB>>

\* synthesize, lines 156-194: inference, parse, FinalReport(...); an
\* exception of the inference or of the validation is logged and re-raised
BStage2Infer(q, ok, r) ==
    /\ b_pc[q] = "s2_infer"
    /\ b_running = q
    /\ IF ok /\ FinalReportValid(ParseLLMResponse(r))
       THEN /\ b_plan' = [b_plan EXCEPT ![q] =
                            ParseActionPlanB(ParseLLMResponse(r).plan,
                                             last_stage1_risk)]
            /\ BGoto(q, "s2_unload")
            /\ UNCHANGED b_err
       ELSE /\ BRaise(q, IF ok THEN "validation_error"
                         ELSE "stage2_infer_error")
            /\ UNCHANGED b_plan
    /\ UNCHANGED <<b_running, b_raised, b_outcome, b_s1risk, b_s2idx, b_loaded,
                   last_stage1_risk>>
    /\ UNCHANGED b_tried
    /\ b_trace' = [b_trace EXCEPT ![q] =
                       IF ok /\ FinalReportValid(ParseLLMResponse(r))
                       THEN Append(@, "synthesis_call") ELSE @]
    /\ UNCHANGED <<mlVars, notB>>

\* process_query without its line 101: stage 2's model is left loaded
BStage2Unload_Skip(q) ==
    /\ b_pc[q] = "s2_unload"
    /\ b_running = q
    /\ BGoto(q, "return")
    /\ UNCHANGED <<b_running, b_err, b_raised, b_outcome, b_s1risk, b_s2idx,
                   b_loaded, b_plan, last_stage1_risk>>
    /\ UNCHANGED b_tried
    /\ UNCHANGED b_trace
    /\ UNCHANGED <<mlVars, notB>>

\* process_query lines 99-104: unload_model after stage 2, return the report
BStage2Unload(q) ==
    /\ b_pc[q] = "s2_unload"
    /\ b_running = q
    /\ UnloadModel
    /\ BGoto(q, "return")
    /\ UNCHANGED ml_loading
    /\ UNCHANGED <<b_running, b_err, b_raised, b_outcome, b_s1risk, b_s2idx, b_loaded,
                   b_plan, last_stage1_risk>>
    /\ UNCHANGED b_tried
    /\ b_trace' = [b_trace EXCEPT ![q] = Append(@, "unload")]
    /\ UNCHANGED notB

BReturn(q) ==
    /\ b_pc[q] = "return"
    /\ b_running = q
    /\ b_running' = None
    /\ b_outcome' = [b_outcome EXCEPT ![q] = "report"]
    /\ UNCHANGED b_raised
    /\ BGoto(q, "done")
    /\ UNCHANGED <<b_err, b_s1risk, b_s2idx, b_loaded, b_plan,
                   last_stage1_risk>>
    /\ b_tried' = [b_tried EXCEPT ![q] = <<>>]
    /\ UNCHANGED b_trace
    /\ UNCHANGED <<mlVars, notB>>

\* the except clause without its line 109: the model is left loaded
BExcept_NoUnload(q) ==
    /\ b_pc[q] = "except"
    /\ b_running = q
    /\ BGoto(q, "reraise")
    /\ UNCHANGED <<b_running, b_err, b_raised, b_outcome, b_s1risk, b_s2idx, b_loaded,
                   b_plan, last_stage1_risk>>
    /\ UNCHANGED b_tried
    /\ UNCHANGED b_trace
    /\ UNCHANGED <<mlVars, notB>>

\* process_query lines 106-109: the except clause unloads the model
BExcept(q) ==
    /\ b_pc[q] = "except"
    /\ b_running = q
    /\ UnloadModel
    /\ BGoto(q, "reraise")
    /\ UNCHANGED ml_loading
    /\ UNCHANGED <<b_running, b_err, b_raised, b_outcome, b_s1risk, b_s2idx, b_loaded,
                   b_plan, last_stage1_risk>>
    /\ UNCHANGED b_tried
    /\ b_trace' = [b_trace EXCEPT ![q] = Append(@, "unload")]
    /\ UNCHANGED notB

\* process_query line 110: raise (the exception in flight reaches the caller)
BReraise(q) ==
    /\ b_pc[q] = "reraise"
    /\ b_running = q
    /\ b_running' = None
    /\ b_outcome' = [b_outcome EXCEPT ![q] = "raised"]
    /\ b_raised' = [b_raised EXCEPT ![q] = b_err[q]]
    /\ BGoto(q, "done")
    /\ UNCHANGED <<b_err, b_s1risk, b_s2idx, b_loaded, b_plan,
                   last_stage1_risk>>
    /\ b_tried' = [b_tried EXCEPT ![q] = <<>>]
    /\ UNCHANGED b_trace
    /\ UNCHANGED <<mlVars, notB>>

BNext ==
    \/ \E q \in Queries : BStart(q)
    \/ \E q \in Queries, ok \in BOOLEAN : BContextDone(q, ok)
    \/ \E q \in Queries, ok \in BOOLEAN : BCompress(q, ok)
    \/ \E q \in Queries : BStage1Check(q)
    \/ \E q \in Queries, ok \in BOOLEAN : BStage1Loaded(q, ok)
    \/ \E q \in Queries, ok \in BOOLEAN, risk \in RiskLevels :
          BStage1Infer(q, ok, risk)
    \/ \E q \in Queries : BStage1Unload(q)
    \/ \E q \in Queries : BConfidence(q)
    \/ \E q \in Queries : BStage2Check(q)
    \/ \E q \in Queries : BStage2Try(q)
    \/ \E q \in Queries, ok \in BOOLEAN : BStage2Loaded(q, ok)
    \/ \E q \in Queries : BStage2Get(q)
    \/ \E q \in Queries, ok \in BOOLEAN, r \in Responses :
          BStage2Infer(q, ok, r)
    \/ \E q \in Queries : BStage2Unload(q)
    \/ \E q \in Queries : BReturn(q)
    \/ \E q \in Queries : BExcept(q)
    \/ \E q \in Queries : BReraise(q)

\* ------------------------------------------------------------------------
\* CircuitBreaker (core/circuit_breaker.py)
\* ------------------------------------------------------------------------
\* CONTRADICTION_RULES in the order of the dict literal
ContradictionRules ==
    << [a1 |-> "RiskAgent", a2 |-> "TechnicalAgent", arbiter |-> "MacroAgent"],
       [a1 |-> "TechnicalAgent", a2 |-> "RiskAgent", arbiter |-> "MacroAgent"],
       [a1 |-> "MacroAgent", a2 |-> "SentimentAgent", arbiter |-> "RiskAgent"],
       [a1 |-> "SentimentAgent", a2 |-> "MacroAgent", arbiter |-> "RiskAgent"] >>

\* RISK_LEVELS.get(level, 2)
RiskOrdinal(level) ==
    CASE level = "critical" -> 4
      [] level = "high" -> 3
      [] level = "medium" -> 2
      [] level = "low" -> 1
      [] OTHER -> 2

\* the antonym list without its first pair
OppositePairs_NoBullish == { <<"rise", "fall">>,
                   <<"growth", "decline">>, <<"positive", "negative">>,
                   <<"buy", "sell">>, <<"crash", "rally">> }

OppositePairs == { <<"bullish", "bearish">>, <<"rise", "fall">>,
                   <<"growth", "decline">>, <<"positive", "negative">>,
                   <<"buy", "sell">>, <<"crash", "rally">> }

Abs(x) == IF x < 0 THEN 0 - x ELSE x

\* _is_contradictory; key_drivers is the set of antonym-list words that occur
\* in the lower-cased, joined key-driver text of an output
\* _is_contradictory with risk_diff > 3 in place of risk_diff >= 3
IsContradictory_StrictDiff(o1, o2) ==
    \/ Abs(RiskOrdinal(o1.risk_level) - RiskOrdinal(o2.risk_level)) > 3
    \/ \E pr \in OppositePairs :
          \/ pr[1] \in o1.key_drivers /\ pr[2] \in o2.key_drivers
          \/ pr[2] \in o1.key_drivers /\ pr[1] \in o2.key_drivers

\* _is_contradictory; key_drivers is the set of antonym-list words that occur
\* in the lower-cased, joined key-driver text of an output
IsContradictory(o1, o2) ==
    \/ Abs(RiskOrdinal(o1.risk_level) - RiskOrdinal(o2.risk_level)) >= 3
    \/ \E pr \in OppositePairs :
          \/ pr[1] \in o1.key_drivers /\ pr[2] \in o2.key_drivers
          \/ pr[2] \in o1.key_drivers /\ pr[1] \in o2.key_drivers

OutputIds(outputs) == {outputs[i].agent_id : i \in DOMAIN outputs}

\* agent_dict = {output.agent_id: output ...}: the last output of an id wins
AgentDict(outputs) ==
    [id \in OutputIds(outputs) |->
        outputs[CHOOSE i \in DOMAIN outputs :
                   /\ outputs[i].agent_id = id
                   /\ \A j \in DOMAIN outputs :
                         outputs[j].agent_id = id => j <= i]]

\* the rules found contradictory, in rule order (the list "contradictions")
MatchedRules(outputs) ==
    SelectSeq(ContradictionRules,
              LAMBDA r : /\ r.a1 \in OutputIds(outputs)
                         /\ r.a2 \in OutputIds(outputs)
                         /\ IsContradictory(AgentDict(outputs)[r.a1],
                                            AgentDict(outputs)[r.a2]))

NoEvent == [detected |-> FALSE, conflicting_agents |-> {}, arbiter |-> None,
            contradiction_count |-> 0]

\* check_contradictions without the length test and with a breaker that
\* also trips on any critical output by itself
CheckContradictions_CriticalTrips(outputs) ==
    IF \E i \in DOMAIN outputs : outputs[i].risk_level = "critical"
    THEN [detected |-> TRUE,
          conflicting_agents |->
              {outputs[i].agent_id : i \in {j \in DOMAIN outputs :
                                               outputs[j].risk_level = "critical"}},
          arbiter |-> "SynthesisAgent",
          contradiction_count |-> 1]
    ELSE NoEvent

\* the arbiter taken from the last rule found contradictory
ArbiterOf_Last(matched) ==
    IF matched = <<>> THEN None ELSE matched[Len(matched)].arbiter

\* the local "arbiter" after the loop over the rules: set once, by the first
\* rule found contradictory (lines 70, 78-79)
ArbiterOf(matched) ==
    IF matched = <<>> THEN None ELSE matched[1].arbiter

\* check_contradictions
CheckContradictions(outputs) ==
    IF Len(outputs) < 2 THEN NoEvent
    ELSE IF MatchedRules(outputs) = <<>> THEN NoEvent
    ELSE [detected |-> TRUE,
          conflicting_agents |->
              UNION {{MatchedRules(outputs)[i].a1, MatchedRules(outputs)[i].a2}
                        : i \in DOMAIN MatchedRules(outputs)},
          arbiter |-> IF ArbiterOf(MatchedRules(outputs)) = None
                      THEN "SynthesisAgent"
                      ELSE ArbiterOf(MatchedRules(outputs)),
          contradiction_count |-> Len(MatchedRules(outputs))]

NoRecommendation == [arbiter |-> None, conflicting_agents |-> {},
                     conflicting_outputs |-> <<>>]

\* get_arbiter_recommendation
GetArbiterRecommendation(event, outputs) ==
    [arbiter |-> event.arbiter,
     conflicting_agents |-> event.conflicting_agents,
     conflicting_outputs |->
         SelectSeq(outputs,
                   LAMBDA o : o.agent_id \in event.conflicting_agents)]

\* ------------------------------------------------------------------------
\* ConfidenceEngine (core/confidence_engine.py); scores are in percent and
\* divisions round down
\* ------------------------------------------------------------------------
\* SOURCE_RELIABILITY.get(name, SOURCE_RELIABILITY["default"])
StaticReliability(name) ==
    CASE name \in {"Reuters", "Bloomberg"} -> 95
      [] name \in {"Financial Times", "Wall Street Journal"} -> 90
      [] name = "FRED" -> 98
      [] name = "Alpha Vantage" -> 85
      [] name = "Tavily" -> 80
      [] name = "NewsAPI" -> 75
      [] OTHER -> 70

Clamp01(x) == IF x < 0 THEN 0 ELSE IF x > 100 THEN 100 ELSE x

RECURSIVE SumFreshness(_)
SumFreshness(ss) ==
    IF ss = <<>> THEN 0 ELSE Head(ss).freshness + SumFreshness(Tail(ss))

RECURSIVE SumWeighted(_)
\* sum of static reliability * source.reliability * source.freshness
SumWeighted(ss) ==
    IF ss = <<>> THEN 0
    ELSE StaticReliability(Head(ss).source) * Head(ss).reliability
            * Head(ss).freshness + SumWeighted(Tail(ss))

\* _calculate_source_reliability
CalculateSourceReliability(ss) ==
    IF ss = <<>> THEN 70
    ELSE IF SumFreshness(ss) > 0
         THEN SumWeighted(ss) \div (100 * SumFreshness(ss))
         ELSE 70

\* _calculate_data_freshness; overall is context_freshness.get("overall", 0.5)
CalculateDataFreshness(o, overall) ==
    Clamp01(((IF o.source_summary # <<>>
              THEN SumFreshness(o.source_summary) \div Len(o.source_summary)
              ELSE 50) + overall) \div 2)

\* the score without the max/min of line 82 and with the data freshness
\* counted as a bonus (1 + data_freshness)
FinalConfidence_Bonus(o, freshness_factor, overall) ==
    (o.confidence * CalculateSourceReliability(o.source_summary)
        * (100 + CalculateDataFreshness(o, overall)) * freshness_factor)
    \div 1000000

\* the final_confidence of one output, clamped
FinalConfidence(o, freshness_factor, overall) ==
    Clamp01((o.confidence * CalculateSourceReliability(o.source_summary)
               * CalculateDataFreshness(o, overall) * freshness_factor)
            \div 1000000)

\* compute_dynamic_confidence: one entry per agent_id, a later output of the
\* same id overwrites an earlier one
ComputeDynamicConfidence(outputs, freshness_factor, overall) ==
    [id \in OutputIds(outputs) |->
        FinalConfidence(AgentDict(outputs)[id], freshness_factor, overall)]

\* risk_levels.get(risk_level, 2) of calculate_inter_agent_agreement
AgreementRiskValue(level) ==
    CASE level = "critical" -> 4
      [] level = "high" -> 3
      [] level = "medium" -> 2
      [] level = "low" -> 1
      [] OTHER -> 2

RECURSIVE SumRiskValues(_)
SumRiskValues(outputs) ==
    IF outputs = <<>> THEN 0
    ELSE AgreementRiskValue(Head(outputs).risk_level)
            + SumRiskValues(Tail(outputs))

RECURSIVE SumSquares(_, _, _)
\* sum of (n*x - shift)^2 over the risk values x: with shift the sum of the
\* values this is n^2 times the sum of the squared deviations from the mean
SumSquares(outputs, n, shift) ==
    IF outputs = <<>> THEN 0
    ELSE (n * AgreementRiskValue(Head(outputs).risk_level) - shift)
            * (n * AgreementRiskValue(Head(outputs).risk_level) - shift)
         + SumSquares(Tail(outputs), n, shift)

\* integer square root
ISqrt(x) == CHOOSE r \in 0..x : r * r <= x /\ (r + 1) * (r + 1) > x

\* 1.0 - min(1.0, std_dev / 2.0), clamped, in percent; std_dev is the root
\* of sq / n^3
AgreementFromSquares(sq, n) ==
    Clamp01(100 - (IF ISqrt((10000 * sq) \div (n * n * n)) \div 2 > 100
                   THEN 100
                   ELSE ISqrt((10000 * sq) \div (n * n * n)) \div 2))

\* calculate_inter_agent_agreement with a variance that is not centred on
\* the mean and without the early return
CalculateInterAgentAgreement_Uncentred(outputs) ==
    IF Len(outputs) < 1 THEN 100
    ELSE AgreementFromSquares(SumSquares(outputs, Len(outputs), 0),
                              Len(outputs))

\* calculate_inter_agent_agreement, in percent
CalculateInterAgentAgreement(outputs) ==
    IF Len(outputs) < 2 THEN 100
    ELSE AgreementFromSquares(
             SumSquares(outputs, Len(outputs), SumRiskValues(outputs)),
             Len(outputs))

\* freshness_factor=0.95 of both orchestrators
FreshnessFactor == 95

\* ------------------------------------------------------------------------
\* Mode A: FinNeuroSimOrchestrator.process_query (core/orchestrator.py)
\* with SynthesisAgent.synthesize
\* ------------------------------------------------------------------------
\* stage1_agents, in task order
Stage1Agents == <<"RiskAgent", "MacroAgent", "TechnicalAgent",
                  "SentimentAgent">>
Stage1AgentSet == {Stage1Agents[i] : i \in DOMAIN Stage1Agents}

\* contexts build_context hands to the agents: overall freshness and the
\* source summary the agents derive from it (_create_source_summary_from_context)
Contexts ==
    { [overall |-> 50, sources |-> <<>>],
      [overall |-> 90,
       sources |-> <<[source |-> "FRED", freshness |-> 90,
                      reliability |-> 98]>>] }
NoContext == [overall |-> 0, sources |-> <<>>]

\* antonym-list words found in an agent's key drivers
DriverSets == {{}, {"bullish"}, {"bearish"}}
\* risk levels the agents report: the two ends of RISK_LEVELS
AgentRisks == {"critical", "low"}
\* confidence of an agent output (0.6 is the text-fallback value)
AgentConfidence == 60

Pending == [status |-> "pending", risk_level |-> None, key_drivers |-> {}]
Failed == [status |-> "failed", risk_level |-> None, key_drivers |-> {}]

\* the AgentOutput an agent's analyze returned
OutputOf(a) ==
    [agent_id |-> a, risk_level |-> a_results[a].risk_level,
     confidence |-> AgentConfidence,
     key_drivers |-> a_results[a].key_drivers,
     source_summary |-> a_ctx.sources]

RECURSIVE FilterResults(_)
\* _run_stage1_agents, lines 156-161: walk the gathered results in task
\* order, log the exceptions, keep the rest
FilterResults(agents) ==
    IF agents = <<>> THEN <<>>
    ELSE IF a_results[Head(agents)].status = "failed"
         THEN FilterResults(Tail(agents))
         ELSE <<OutputOf(Head(agents))>> \o FilterResults(Tail(agents))

EmptyMap == [id \in {} |-> 0]
NoSynth == [called |-> FALSE, outputs |-> <<>>, confmap |-> EmptyMap,
            ctx |-> NoContext]

AInitVars ==
    /\ a_pc = "idle"
    /\ a_ctx = NoContext
    /\ a_agents = FALSE
    /\ a_results = [a \in Stage1AgentSet |-> Pending]
    /\ a_outputs = <<>>
    /\ a_cb_input = <<>>
    /\ a_event = NoEvent
    /\ a_rec = NoRecommendation
    /\ a_confmap = EmptyMap
    /\ a_synth = NoSynth
    /\ a_outcome = "none"
    /\ a_err = None
    /\ a_plan = <<>>

\* process_query is called: intent analysis, then await build_context
AStart ==
    /\ a_pc = "idle"
    /\ a_pc' = "context"
    /\ UNCHANGED <<a_ctx, a_agents, a_results, a_outputs, a_cb_input, a_event,
                   a_rec, a_confmap, a_synth, a_outcome, a_err, a_plan>>
    /\ UNCHANGED notA

\* build_context returns (the agents are loaded, the four analyze tasks are
\* started) or raises (nothing catches it)
AContextDone(ok, ctx) ==
    /\ a_pc = "context"
    /\ IF ok
       THEN /\ a_ctx' = ctx
            /\ a_agents' = TRUE
            /\ a_pc' = "stage1"
            /\ UNCHANGED <<a_outcome, a_err>>
       ELSE /\ a_pc' = "done"
            /\ a_outcome' = "raised"
            /\ a_err' = "context_error"
            /\ UNCHANGED <<a_ctx, a_agents>>
    /\ UNCHANGED <<a_results, a_outputs, a_cb_input, a_event, a_rec,
                   a_confmap, a_synth, a_plan>>
    /\ UNCHANGED notA

\* one analyze task of the gather completes, in any order: it returns an
\* AgentOutput or raises
AAgentDone(a, ok, risk, drivers) ==
    /\ a_pc = "stage1"
    /\ a_results[a].status = "pending"
    /\ a_results' = [a_results EXCEPT ![a] =
                        IF ok THEN [status |-> "ok", risk_level |-> risk,
                                    key_drivers |-> drivers]
                        ELSE Failed]
    /\ UNCHANGED <<a_pc, a_ctx, a_agents, a_outputs, a_cb_input, a_event,
                   a_rec, a_confmap, a_synth, a_outcome, a_err, a_plan>>
    /\ UNCHANGED notA

\* _run_stage1_agents with a gather that lets the first exception through
AGather_Abort ==
    /\ a_pc = "stage1"
    /\ \A a \in Stage1AgentSet : a_results[a].status # "pending"
    /\ IF \E a \in Stage1AgentSet : a_results[a].status = "failed"
       THEN /\ a_pc' = "done"
            /\ a_outcome' = "raised"
            /\ a_err' = "agent_error"
            /\ UNCHANGED a_outputs
       ELSE /\ a_outputs' = FilterResults(Stage1Agents)
            /\ a_pc' = "circuit"
            /\ UNCHANGED <<a_outcome, a_err>>
    /\ UNCHANGED <<a_ctx, a_agents, a_results, a_cb_input, a_event, a_rec,
                   a_confmap, a_synth, a_plan>>
    /\ UNCHANGED notA

\* _run_stage1_agents, lines 153-163: the gather returns when all four tasks
\* are done; exceptions are filtered out
AGather ==
    /\ a_pc = "stage1"
    /\ \A a \in Stage1AgentSet : a_results[a].status # "pending"
    /\ a_outputs' = FilterResults(Stage1Agents)
    /\ a_pc' = "circuit"
    /\ UNCHANGED <<a_ctx, a_agents, a_results, a_cb_input, a_event, a_rec,
                   a_confmap, a_synth, a_outcome, a_err, a_plan>>
    /\ UNCHANGED notA

RECURSIVE DropConflicting(_, _)
\* the outputs whose agent_id is not among the conflicting identities
DropConflicting(outputs, ids) ==
    IF outputs = <<>> THEN <<>>
    ELSE IF Head(outputs).agent_id \in ids
         THEN DropConflicting(Tail(outputs), ids)
         ELSE <<Head(outputs)>> \o DropConflicting(Tail(outputs), ids)

\* process_query acting on the event: the conflicting outputs are taken out
\* of agent_outputs before the confidence scoring and the synthesis
ACircuit_Reweight ==
    /\ a_pc = "circuit"
    /\ a_cb_input' = a_outputs
    /\ a_event' = CheckContradictions(a_outputs)
    /\ a_rec' = IF CheckContradictions(a_outputs).detected
                THEN GetArbiterRecommendation(CheckContradictions(a_outputs),
                                              a_outputs)
                ELSE NoRecommendation
    /\ a_outputs' = IF CheckContradictions(a_outputs).detected
                    THEN DropConflicting(a_outputs,
                            CheckContradictions(a_outputs).conflicting_agents)
                    ELSE a_outputs
    /\ a_pc' = "confidence"
    /\ UNCHANGED <<a_ctx, a_agents, a_results, a_confmap, a_synth,
                   a_outcome, a_err, a_plan>>
    /\ UNCHANGED notA

\* process_query lines 67-76: circuit breaker check and recommendation
ACircuit ==
    /\ a_pc = "circuit"
    /\ a_cb_input' = a_outputs
    /\ a_event' = CheckContradictions(a_outputs)
    /\ a_rec' = IF CheckContradictions(a_outputs).detected
                THEN GetArbiterRecommendation(CheckContradictions(a_outputs),
                                              a_outputs)
                ELSE NoRecommendation
    /\ a_pc' = "confidence"
    /\ UNCHANGED <<a_ctx, a_agents, a_results, a_outputs, a_confmap, a_synth,
                   a_outcome, a_err, a_plan>>
    /\ UNCHANGED notA

\* process_query lines 78-84: compute_dynamic_confidence
AConfidence ==
    /\ a_pc = "confidence"
    /\ a_confmap' = ComputeDynamicConfidence(a_outputs, FreshnessFactor,
                                             a_ctx.overall)
    /\ a_pc' = "synth"
    /\ UNCHANGED <<a_ctx, a_agents, a_results, a_outputs, a_cb_input, a_event,
                   a_rec, a_synth, a_outcome, a_err, a_plan>>
    /\ UNCHANGED notA

\* process_query lines 86-95 and SynthesisAgent.synthesize: the provider
\* answers with text r (an LLM error is answered as a short error text);
\* FinalReport(...) is returned, or its ValidationError reaches the caller
ASynthesize(r) ==
    /\ a_pc = "synth"
    /\ a_synth' = [called |-> TRUE, outputs |-> a_outputs,
                   confmap |-> a_confmap, ctx |-> a_ctx]
    /\ IF FinalReportValid(ParseLLMResponse(r))
       THEN /\ a_outcome' = "report"
            /\ a_plan' = ParseActionPlanA(ParseLLMResponse(r).plan)
            /\ UNCHANGED a_err
       ELSE /\ a_outcome' = "raised"
            /\ a_err' = "validation_error"
            /\ UNCHANGED a_plan
    /\ a_pc' = "done"
    /\ UNCHANGED <<a_ctx, a_agents, a_results, a_outputs, a_cb_input, a_event,
                   a_rec, a_confmap>>
    /\ UNCHANGED notA

ANext ==
    \/ AStart
    \/ \E ok \in BOOLEAN, ctx \in Contexts : AContextDone(ok, ctx)
    \/ \E a \in Stage1AgentSet, ok \in BOOLEAN, risk \in AgentRisks,
          drivers \in DriverSets : AAgentDone(a, ok, risk, drivers)
    \/ AGather
    \/ ACircuit
    \/ AConfidence
    \/ \E r \in Responses : ASynthesize(r)

\* ------------------------------------------------------------------------
\* ContextBuilder.build_context (core/context_builder.py) with the payload
\* shapes of data_sources/market_api.py, macro_api.py and news_api.py.
\* A payload is a dict, modelled as a function from its keys.
\* ------------------------------------------------------------------------
\* intent.assets of the queries considered
AssetLists == { <<>>, <<"AAPL">>, <<"GENERAL_MARKET", "AAPL">>,
                <<"AAPL", "MSFT">> }
Region == "US"
Indicators == {"cpi", "gdp", "unemployment", "interest_rates"}
EmptyDict == [k \in {} |-> "val"]

\* ages in hours of the newest macro observation and the newest news item
MacroAgeHours == 84
NewsAgeHours == 6

RECURSIVE MarketSymbols(_)
\* build_context lines 55-58: one market task per asset but GENERAL_MARKET
MarketSymbols(assets) ==
    IF assets = <<>> THEN <<>>
    ELSE IF Head(assets) # "GENERAL_MARKET"
         THEN <<Head(assets)>> \o MarketSymbols(Tail(assets))
         ELSE MarketSymbols(Tail(assets))

\* the tasks of the outer gather: market tasks, then macro, then news
Tasks(assets) ==
    [i \in 1..Len(MarketSymbols(assets)) |->
        [origin |-> "market", symbol |-> MarketSymbols(assets)[i]]]
    \o <<[origin |-> "macro", symbol |-> None],
         [origin |-> "news", symbol |-> None]>>

\* what a market branch can hand back (_get_market_data, get_intraday_data,
\* get_quote)
MarketOutcomes == {"data", "quote", "error", "error_nokey"}
MarketBody(sym, outcome) ==
    CASE outcome = "data" ->
            [symbol |-> sym, interval |-> "5min", data |-> "val",
             metadata |-> "val", timestamp |-> "now"]
      [] outcome = "quote" -> ("Global Quote" :> "val")
      [] outcome = "error" -> [error |-> "msg", symbol |-> sym]
      [] OTHER -> [error |-> "msg"]

\* what an indicator fetch can do: return its series, return an error dict
\* (macro_api catches), or raise into the inner gather
SubOutcomes == {"data", "error_dict", "raised"}
SubFailed(ind) == c_sub[ind] \in {"error_dict", "raised"}

\* _get_macro_data lines 148-154 and 158-159
MacroBody(ok) ==
    IF ok
    THEN [k \in Indicators \cup {"region"} |->
             IF k = "region" THEN Region
             ELSE IF c_sub[k] = "data" THEN "data" ELSE "error"]
    ELSE [error |-> "msg", region |-> Region]

\* what the news branch can hand back: results whose published_date parses
\* to a naive datetime, results whose published_date carries a UTC offset
\* (search_newsapi's publishedAt ends in "Z"), or the error dict
NewsOutcomes == {"dated", "aware", "failed"}

\* _get_news_data and news_api.search_tavily / search_newsapi
NewsBody(outcome) ==
    CASE outcome = "dated" ->
            [query |-> "val", source |-> "tavily", results |-> "items",
             count |-> "val", timestamp |-> "now"]
      [] outcome = "aware" ->
            [query |-> "val", source |-> "newsapi",
             results |-> "items_aware", count |-> "val",
             timestamp |-> "now"]
      [] OTHER -> [error |-> "msg", results |-> "empty"]

PendingResult(i, origin) ==
    [task |-> i, origin |-> origin, done |-> FALSE, failed |-> FALSE,
     body |-> EmptyDict]
DoneResult(i, origin, failed, body) ==
    [task |-> i, origin |-> origin, done |-> TRUE, failed |-> failed,
     body |-> body]

\* dict.update
DictUpdate(old, new) ==
    [k \in DOMAIN old \cup DOMAIN new |->
        IF k \in DOMAIN new THEN new[k] ELSE old[k]]

EmptyContext == [market |-> <<>>, macro |-> EmptyDict, news |-> EmptyDict]

\* build_context lines 91-102 without the "error" tests of the market case
CategorizeOne_KeepErrors(ctx, r) ==
    IF "symbol" \in DOMAIN r.body
    THEN [ctx EXCEPT !.market = Append(@, r)]
    ELSE IF "series_id" \in DOMAIN r.body \/ "region" \in DOMAIN r.body
    THEN [ctx EXCEPT !.macro = DictUpdate(@, r.body)]
    ELSE IF "results" \in DOMAIN r.body \/ "query" \in DOMAIN r.body
    THEN [ctx EXCEPT !.news = r.body]
    ELSE ctx

\* build_context lines 91-102: one result of the gather is put in a bucket
CategorizeOne(ctx, r) ==
    IF "symbol" \in DOMAIN r.body \/ "error" \in DOMAIN r.body
    THEN IF "error" \notin DOMAIN r.body
         THEN [ctx EXCEPT !.market = Append(@, r)]
         ELSE ctx
    ELSE IF "series_id" \in DOMAIN r.body \/ "region" \in DOMAIN r.body
    THEN [ctx EXCEPT !.macro = DictUpdate(@, r.body)]
    ELSE IF "results" \in DOMAIN r.body \/ "query" \in DOMAIN r.body
    THEN [ctx EXCEPT !.news = r.body]
    ELSE ctx

RECURSIVE Categorize(_, _)
\* build_context lines 86-102: the loop over the results
Categorize(results, ctx) ==
    IF results = <<>> THEN ctx
    ELSE Categorize(Tail(results), CategorizeOne(ctx, Head(results)))

\* the score 1.0: scores of the freshness functions are counted in units
\* of 1/60480, ages in minutes, so that age/max_age and the mean of up to
\* three scores are exact for max_age_hours 24 and 168
One == 60480
Half == One \div 2

\* calculate_freshness_score without the age_hours >= max_age_hours test
\* and without the final max/min
CalculateFreshnessScore_NoCutoff(age_minutes, max_age_hours) ==
    IF age_minutes <= 0 THEN One
    ELSE One - (One * age_minutes) \div (60 * max_age_hours)

\* utils/time_utils.py calculate_freshness_score
CalculateFreshnessScore(age_minutes, max_age_hours) ==
    IF age_minutes <= 0 THEN One
    ELSE IF age_minutes >= 60 * max_age_hours THEN 0
    ELSE LET freshness == One - (One * age_minutes) \div (60 * max_age_hours)
         IN IF freshness < 0 THEN 0
            ELSE IF freshness > One THEN One ELSE freshness

\* the last market item that has a timestamp
LastStamped(market) ==
    CHOOSE i \in DOMAIN market :
        /\ "timestamp" \in DOMAIN market[i].body
        /\ \A j \in DOMAIN market :
              "timestamp" \in DOMAIN market[j].body => j <= i

\* _calculate_freshness_scores: the per-bucket scores that exist; age holds
\* the age in minutes of the market timestamp, of the newest macro
\* latest_date and of the newest news published_date
BucketScores(ctx, age) ==
    LET hasMarket == \E i \in DOMAIN ctx.market :
                        "timestamp" \in DOMAIN ctx.market[i].body
        hasMacro == \E k \in DOMAIN ctx.macro : ctx.macro[k] = "data"
        hasNews == "results" \in DOMAIN ctx.news
                      /\ ctx.news["results"] = "items"
        present == (IF hasMarket THEN {"market"} ELSE {})
                      \cup (IF hasMacro THEN {"macro"} ELSE {})
                      \cup (IF hasNews THEN {"news"} ELSE {})
    IN [k \in present |->
           CASE k = "market" ->
                   IF ctx.market[LastStamped(ctx.market)].body["timestamp"]
                         = "unparsable"
                   THEN Half
                   ELSE CalculateFreshnessScore(age.market, 24)
             [] k = "macro" -> CalculateFreshnessScore(age.macro, 168)
             [] OTHER -> CalculateFreshnessScore(age.news, 24)]

RECURSIVE SumScores(_, _)
SumScores(f, keys) ==
    IF keys = {} THEN 0
    ELSE LET k == CHOOSE x \in keys : TRUE
         IN f[k] + SumScores(f, keys \ {k})

\* _calculate_freshness_scores lines 238-240: calculate_freshness_score is
\* called outside the try, and subtracting an offset-aware published_date
\* from datetime.utcnow() raises TypeError
FreshnessRaises(ctx) ==
    "results" \in DOMAIN ctx.news /\ ctx.news["results"] = "items_aware"

\* _calculate_freshness_scores dividing the sum by the three categories
CalculateFreshnessScores_ByThree(ctx, age) ==
    LET sc == BucketScores(ctx, age)
    IN DictUpdate(sc, [overall |->
                          IF DOMAIN sc # {}
                          THEN SumScores(sc, DOMAIN sc) \div 3
                          ELSE Half])

\* _calculate_freshness_scores with its "overall" entry
CalculateFreshnessScores(ctx, age) ==
    LET sc == BucketScores(ctx, age)
    IN DictUpdate(sc, [overall |->
                          IF DOMAIN sc # {}
                          THEN SumScores(sc, DOMAIN sc)
                                  \div Cardinality(DOMAIN sc)
                          ELSE Half])

\* the ages of the payloads build_context has just fetched
CtxAges == [market |-> 0, macro |-> 60 * MacroAgeHours,
            news |-> 60 * NewsAgeHours]

CInitVars ==
    /\ c_pc = "idle"
    /\ c_assets = <<>>
    /\ c_res = <<>>
    /\ c_sub = [ind \in Indicators |-> "pending"]
    /\ c_market = <<>>
    /\ c_macro = EmptyDict
    /\ c_news = EmptyDict
    /\ c_fresh = EmptyDict

\* build_context is called: the tasks are created and gathered
CtxStart(assets) ==
    /\ c_pc = "idle"
    /\ c_assets' = assets
    /\ c_res' = [i \in 1..Len(Tasks(assets)) |->
                    PendingResult(i, Tasks(assets)[i].origin)]
    /\ c_pc' = "gather"
    /\ UNCHANGED <<c_sub, c_market, c_macro, c_news, c_fresh>>
    /\ UNCHANGED notC

\* one _get_market_data task completes
CtxMarketDone(i, outcome) ==
    /\ c_pc = "gather"
    /\ i \in DOMAIN c_res
    /\ c_res[i].origin = "market"
    /\ ~c_res[i].done
    /\ c_res' = [c_res EXCEPT ![i] =
                    DoneResult(i, "market",
                               outcome \in {"error", "error_nokey"},
                               MarketBody(Tasks(c_assets)[i].symbol, outcome))]
    /\ UNCHANGED <<c_pc, c_assets, c_sub, c_market, c_macro, c_news, c_fresh>>
    /\ UNCHANGED notC

\* one indicator fetch of the gather inside _get_macro_data completes
CtxMacroSubDone(ind, outcome) ==
    /\ c_pc = "gather"
    /\ \E i \in DOMAIN c_res : c_res[i].origin = "macro" /\ ~c_res[i].done
    /\ c_sub[ind] = "pending"
    /\ c_sub' = [c_sub EXCEPT ![ind] = outcome]
    /\ UNCHANGED <<c_pc, c_assets, c_res, c_market, c_macro, c_news, c_fresh>>
    /\ UNCHANGED notC

\* _get_macro_data returns: the assembled dict once the inner gather is
\* over, or the error dict of its except clause
CtxMacroDone(i, ok) ==
    /\ c_pc = "gather"
    /\ i \in DOMAIN c_res
    /\ c_res[i].origin = "macro"
    /\ ~c_res[i].done
    /\ ok => \A ind \in Indicators : c_sub[ind] # "pending"
    /\ c_res' = [c_res EXCEPT ![i] =
                    DoneResult(i, "macro", ~ok, MacroBody(ok))]
    /\ UNCHANGED <<c_pc, c_assets, c_sub, c_market, c_macro, c_news, c_fresh>>
    /\ UNCHANGED notC

\* the _get_news_data task completes
CtxNewsDone(i, outcome) ==
    /\ c_pc = "gather"
    /\ i \in DOMAIN c_res
    /\ c_res[i].origin = "news"
    /\ ~c_res[i].done
    /\ c_res' = [c_res EXCEPT ![i] = DoneResult(i, "news", outcome = "failed",
                                              NewsBody(outcome))]
    /\ UNCHANGED <<c_pc, c_assets, c_sub, c_market, c_macro, c_news, c_fresh>>
    /\ UNCHANGED notC

\* build_context lines 68-110: the gather is over; the results are put in
\* their buckets, the freshness scores computed, the context returned, or
\* the TypeError of _calculate_freshness_scores leaves build_context
CtxAssemble ==
    /\ c_pc = "gather"
    /\ \A i \in DOMAIN c_res : c_res[i].done
    /\ LET ctx == Categorize(c_res, EmptyContext)
       IN IF FreshnessRaises(ctx)
          THEN /\ c_pc' = "raised"
               /\ UNCHANGED <<c_market, c_macro, c_news, c_fresh>>
          ELSE /\ c_market' = ctx.market
               /\ c_macro' = ctx.macro
               /\ c_news' = ctx.news
               /\ c_fresh' = CalculateFreshnessScores(ctx, CtxAges)
               /\ c_pc' = "done"
    /\ UNCHANGED <<c_assets, c_res, c_sub>>
    /\ UNCHANGED notC

CtxNext ==
    \/ \E assets \in AssetLists : CtxStart(assets)
    \/ \E i \in 1..4, outcome \in MarketOutcomes : CtxMarketDone(i, outcome)
    \/ \E ind \in Indicators, outcome \in SubOutcomes :
          CtxMacroSubDone(ind, outcome)
    \/ \E i \in 1..4, ok \in BOOLEAN : CtxMacroDone(i, ok)
    \/ \E i \in 1..4, outcome \in NewsOutcomes : CtxNewsDone(i, outcome)
    \/ CtxAssemble

\* the components after construction
InitComponents ==
    /\ RLInitVars
    /\ MLInitVars
    /\ DrvInitVars
    /\ BInitVars
    /\ AInitVars
    /\ CInitVars

\* ------------------------------------------------------------------------
\* Calls of the pure functions: the arguments are drawn when the run starts,
\* the call computes the value
\* ------------------------------------------------------------------------
FnIdle ==
    /\ fn_in = <<>>
    /\ fn_out = None
    /\ fn_done = FALSE

FnReturn(value) ==
    /\ ~fn_done
    /\ fn_out' = value
    /\ fn_done' = TRUE
    /\ UNCHANGED fn_in
    /\ UNCHANGED notFn

\* scores in [0,1] the engine is called with, in percent
Scores == {0, 50, 100}
\* SourceSummary entries of the agent outputs
Sources ==
    { [source |-> "FRED", freshness |-> 100, reliability |-> 100],
      [source |-> "blog", freshness |-> 0, reliability |-> 50] }
SourceSummaries == UNION {[1..k -> Sources] : k \in 0..MaxSources}

\* agent_outputs lists: the i-th output is the one of the i-th stage-1 agent
ConfOutputs(i) ==
    { [agent_id |-> Stage1Agents[i], risk_level |-> "medium",
       confidence |-> c, key_drivers |-> {}, source_summary |-> ss]
         : c \in Scores, ss \in SourceSummaries }
ConfOutputLists ==
    UNION { {l \in [1..k -> UNION {ConfOutputs(i) : i \in 1..k}] :
                \A i \in 1..k : l[i] \in ConfOutputs(i)}
               : k \in 0..MaxOutputs }

ConfInit ==
    /\ InitComponents
    /\ fn_in \in {[outputs |-> l, overall |-> o] :
                     l \in ConfOutputLists, o \in Scores}
    /\ fn_out = None
    /\ fn_done = FALSE

\* compute_dynamic_confidence(agent_outputs, 0.95, {"overall": overall})
ConfidenceCall ==
    FnReturn(ComputeDynamicConfidence(fn_in.outputs, FreshnessFactor,
                                      fn_in.overall))

\* risk_level strings of the outputs: the four levels and another string
AgreeLevels == RiskLevels \cup {"unknown"}
AgreeOutputLists ==
    UNION {[1..k -> {[risk_level |-> r] : r \in AgreeLevels}]
              : k \in 0..MaxAgreeOutputs}

AgreeInit ==
    /\ InitComponents
    /\ fn_in \in AgreeOutputLists
    /\ fn_out = None
    /\ fn_done = FALSE

\* calculate_inter_agent_agreement(agent_outputs)
AgreementCall == FnReturn(CalculateInterAgentAgreement(fn_in))

\* agent_outputs lists handed to check_contradictions
BreakerOutputs ==
    { [agent_id |-> a, risk_level |-> r, key_drivers |-> d]
         : a \in Stage1AgentSet, r \in AgentRisks, d \in DriverSets }
BreakerOutputLists ==
    UNION {[1..k -> BreakerOutputs] : k \in 0..MaxBreakerOutputs}

BreakerInit ==
    /\ InitComponents
    /\ fn_in \in BreakerOutputLists
    /\ fn_out = None
    /\ fn_done = FALSE

\* check_contradictions(agent_outputs)
BreakerCall == FnReturn(CheckContradictions(fn_in))

\* what a stage-1 identity contributes to the list handed to the circuit
\* breaker: nothing (its task raised) or one output
SurvivorChoices ==
    {[present |-> FALSE, risk_level |-> None, key_drivers |-> {}]} \cup
       {[present |-> TRUE, risk_level |-> r, key_drivers |-> d] :
           r \in AgentRisks, d \in DriverSets}

RECURSIVE SurvivorList(_, _)
\* the survivors of _run_stage1_agents, in task order
SurvivorList(agents, choice) ==
    IF agents = <<>> THEN <<>>
    ELSE IF ~choice[Head(agents)].present
         THEN SurvivorList(Tail(agents), choice)
         ELSE <<[agent_id |-> Head(agents),
                 risk_level |-> choice[Head(agents)].risk_level,
                 key_drivers |-> choice[Head(agents)].key_drivers]>>
                 \o SurvivorList(Tail(agents), choice)

SurvivorInit ==
    /\ InitComponents
    /\ fn_in \in {SurvivorList(Stage1Agents, ch) :
                     ch \in [Stage1AgentSet -> SurvivorChoices]}
    /\ fn_out = None
    /\ fn_done = FALSE

\* check_contradictions(agent_outputs) on the survivors of a Mode A run
SurvivorCall == FnReturn(CheckContradictions(fn_in))

\* the orders in which the four analyze tasks of the gather can complete
CompletionOrders ==
    {o \in [1..4 -> Stage1AgentSet] :
        \A i \in 1..4, j \in 1..4 : i # j => o[i] # o[j]}
\* what an analyze task has produced when the gather returns
TaskOutcomes ==
    {Failed,
     [status |-> "ok", risk_level |-> "critical", key_drivers |-> {"bearish"}],
     [status |-> "ok", risk_level |-> "low", key_drivers |-> {"bullish"}]}

\* two runs of Mode A over the same agent outcomes, at the return of the
\* gather, with their completion orders
OrderInit ==
    /\ RLInitVars
    /\ MLInitVars
    /\ DrvInitVars
    /\ BInitVars
    /\ CInitVars
    /\ a_pc = "stage1"
    /\ a_ctx \in {c \in Contexts : c.sources # <<>>}
    /\ a_agents = TRUE
    /\ a_results \in [Stage1AgentSet -> TaskOutcomes]
    /\ a_outputs = <<>>
    /\ a_cb_input = <<>>
    /\ a_event = NoEvent
    /\ a_rec = NoRecommendation
    /\ a_confmap = EmptyMap
    /\ a_synth = NoSynth
    /\ a_outcome = "none"
    /\ a_err = None
    /\ a_plan = <<>>
    /\ fn_in \in [first : CompletionOrders, second : CompletionOrders]
    /\ fn_out = None
    /\ fn_done = FALSE

\* asyncio.gather hands back the results in the order the awaitables
\* were passed, not in the order of completion
GatheredOrder_AsCompleted(completion) == completion

\* asyncio.gather(*tasks): the results come in the order of tasks, whatever
\* the order in which the tasks completed
GatheredOrder(completion) == Stage1Agents

\* _run_stage1_agents, check_contradictions and compute_dynamic_confidence
\* of a run whose tasks completed in the given order
Aggregate(completion) ==
    LET outs == FilterResults(GatheredOrder(completion))
    IN [outputs |-> outs,
        confmap |-> ComputeDynamicConfidence(outs, FreshnessFactor,
                                             a_ctx.overall),
        event |-> CheckContradictions(outs)]

OrderCall ==
    FnReturn([first |-> Aggregate(fn_in.first),
              second |-> Aggregate(fn_in.second)])

\* ages (reference_time - timestamp, in minutes) handed to
\* calculate_freshness_score, from a timestamp an hour in the future on,
\* and the max_age_hours this repository passes (24 by default, 168 for
\* macro data)
FreshAges == {30 * k : k \in -2..MaxAgeSteps}
FreshMaxAges == {24, 168}

FreshInit ==
    /\ InitComponents
    /\ fn_in \in [age_minutes : FreshAges, max_age_hours : FreshMaxAges]
    /\ fn_out = None
    /\ fn_done = FALSE

\* calculate_freshness_score(timestamp, max_age_hours, reference_time)
FreshnessCall ==
    FnReturn(CalculateFreshnessScore(fn_in.age_minutes, fn_in.max_age_hours))

\* contexts handed to _calculate_freshness_scores: the market bucket is
\* empty, holds one get_intraday_data item, one whose timestamp does not
\* parse, or an unparsable one followed by a good one; the macro bucket is
\* empty, holds only error entries, or holds series; the news bucket is
\* empty or holds results with naive, missing or offset-aware
\* published_date
FreshMarkets == {"none", "stamped", "unparsable", "two"}
FreshMacros == {"none", "errors", "data"}
FreshNews == {"none", "dated", "undated", "aware"}
FreshMarketAges == {0, 720}
FreshMacroAges == {0, 1008, 10080}
FreshNewsAges == {0, 360, 1500}

UnparsableItem ==
    DoneResult(1, "market", FALSE,
               [symbol |-> "AAPL", interval |-> "5min", data |-> "val",
                metadata |-> "val", timestamp |-> "unparsable"])

FreshContext(in) ==
    [market |->
        CASE in.market = "none" -> <<>>
          [] in.market = "stamped" ->
                <<DoneResult(1, "market", FALSE, MarketBody("AAPL", "data"))>>
          [] in.market = "unparsable" -> <<UnparsableItem>>
          [] OTHER ->
                <<UnparsableItem,
                  DoneResult(2, "market", FALSE, MarketBody("MSFT", "data"))>>,
     macro |->
        CASE in.macro = "none" -> EmptyDict
          [] in.macro = "errors" ->
                [k \in Indicators \cup {"region"} |->
                    IF k = "region" THEN Region ELSE "error"]
          [] OTHER ->
                [k \in Indicators \cup {"region"} |->
                    IF k = "region" THEN Region
                    ELSE IF k = "gdp" THEN "error" ELSE "data"],
     news |->
        CASE in.news = "none" -> EmptyDict
          [] in.news = "dated" -> NewsBody("dated")
          [] in.news = "aware" -> NewsBody("aware")
          [] OTHER -> [query |-> "val", source |-> "tavily",
                       results |-> "items_undated", count |-> "val",
                       timestamp |-> "now"]]

OverallInit ==
    /\ InitComponents
    /\ fn_in \in [market : FreshMarkets, macro : FreshMacros,
                  news : FreshNews,
                  age : [market : FreshMarketAges, macro : FreshMacroAges,
                         news : FreshNewsAges]]
    /\ fn_out = None
    /\ fn_done = FALSE

\* _calculate_freshness_scores(context): the dictionary it returns, or the
\* TypeError that leaves it
OverallCall ==
    FnReturn(IF FreshnessRaises(FreshContext(fn_in))
             THEN [raised |-> TRUE, scores |-> EmptyDict]
             ELSE [raised |-> FALSE,
                   scores |-> CalculateFreshnessScores(FreshContext(fn_in),
                                                       fn_in.age)])

\* ------------------------------------------------------------------------
\* Specifications
\* ------------------------------------------------------------------------
Init ==
    /\ InitComponents
    /\ FnIdle

SpecRL == Init /\ [][RLNext]_vars
\* the rate limiter over a shorter horizon: time passes, and the event loop
\* resumes a caller whose sleep is over
LiveCall(c, n) == rl_calls < MaxLiveCalls /\ WaitIfNeeded(c, n)
LiveTick ==
    /\ \/ now < MaxLiveTime
       \/ \E c \in Callers : rl_pc[c] = "sleeping" /\ now < rl_wake[c]
    /\ Tick
RLLiveNext ==
    \/ \E n \in ApiNames, mc \in 1..MaxLimit : AddLimit(n, mc, TimeWindow)
    \/ \E c \in Callers, n \in ApiNames : LiveCall(c, n)
    \/ \E c \in Callers : WaitResume(c)
    \/ LiveTick
SpecRLLive ==
    /\ Init
    /\ [][RLLiveNext]_vars
    /\ WF_vars(LiveTick)
    /\ \A c \in Callers : WF_vars(WaitResume(c))

SpecLoader == Init /\ [][LoaderNext]_vars
SpecB == Init /\ [][BNext]_vars
SpecA == Init /\ [][ANext]_vars
SpecCtx == Init /\ [][CtxNext]_vars
\* the stage-1 report Stage1Mistral.analyze returns: its agent_id is the
\* fixed string "Stage1Mistral"
Stage1Reports ==
    { [agent_id |-> "Stage1Mistral", risk_level |-> "medium",
       confidence |-> c, key_drivers |-> {}, source_summary |-> ss]
         : c \in Scores, ss \in SourceSummaries }
\* overall freshness of the assembled context, in percent
ReportOveralls == {10 * k : k \in 0..10}

\* the context build_context returns always carries data_freshness
ReportContext(overall) == [data_freshness |-> [overall |-> overall]]

\* SynthesisAgent.synthesize:
\* context.get("data_freshness", {}).get("overall", 0.5)
SynthesisAgentFreshness(context) ==
    IF "data_freshness" \in DOMAIN context
    THEN IF "overall" \in DOMAIN context.data_freshness
         THEN context.data_freshness.overall
         ELSE 50
    ELSE 50

\* Stage2Llama.synthesize: confidence_metrics.get("data_freshness", 0.5),
\* confidence_metrics being the map of agent_id to final confidence
Stage2LlamaFreshness(confidence_metrics) ==
    IF "data_freshness" \in DOMAIN confidence_metrics
    THEN confidence_metrics["data_freshness"]
    ELSE 50

ReportInit ==
    /\ InitComponents
    /\ fn_in \in [report : Stage1Reports, overall : ReportOveralls]
    /\ fn_out = None
    /\ fn_done = FALSE

\* the data_freshness_score of the FinalReport of each mode for one context:
\* Mode A hands the context to SynthesisAgent.synthesize, Mode B hands
\* compute_dynamic_confidence([stage1_report], 0.95, data_freshness) to
\* Stage2Llama.synthesize
ReportCall ==
    FnReturn([mode_a |->
                 SynthesisAgentFreshness(ReportContext(fn_in.overall)),
              mode_b |->
                 Stage2LlamaFreshness(
                     ComputeDynamicConfidence(<<fn_in.report>>,
                                              FreshnessFactor,
                                              fn_in.overall))])

SpecConf == ConfInit /\ [][ConfidenceCall]_vars
SpecAgree == AgreeInit /\ [][AgreementCall]_vars
SpecBreaker == BreakerInit /\ [][BreakerCall]_vars
SpecSurvivors == SurvivorInit /\ [][SurvivorCall]_vars
SpecOrder == OrderInit /\ [][OrderCall]_vars
SpecFresh == FreshInit /\ [][FreshnessCall]_vars
SpecOverall == OverallInit /\ [][OverallCall]_vars
SpecReport == ReportInit /\ [][ReportCall]_vars

\* ------------------------------------------------------------------------
\* Claims
\* ------------------------------------------------------------------------
\* number of recorded timestamps of n inside the rolling window (t-w, t]
InWindow(n, t) ==
    Cardinality({i \in DOMAIN call_history[n] :
                    /\ call_history[n][i] > t - limits[n].time_window
                    /\ call_history[n][i] <= t})

\* C1: for every registered name and every rolling window of time_window,
\* the history never holds more than max_calls timestamps inside the window.
C1_QuotaNeverExceeded ==
    \A n \in ApiNames : Registered(n) =>
        \A t \in 0..MaxTime : InWindow(n, t) <= limits[n].max_calls

\* C2: while a caller is suspended between its saturation check and its
\* append, no other caller prunes, checks or appends on the same name.
C2_CriticalSection ==
    [][\A c \in Callers :
          (rl_pc[c] = "sleeping" /\ rl_pc'[c] = "sleeping") =>
             /\ call_history'[rl_name[c]] = call_history[rl_name[c]]
             /\ \A d \in Callers \ {c} :
                   (rl_pc'[d] = "sleeping" /\ rl_name'[d] = rl_name[c])
                      => rl_pc[d] = "sleeping"]_vars

\* C10: the loader holds at most one resident resource: the three fields are
\* all unset with nothing resident, or all set to the one resident identity;
\* while load_model loads, the previous resource is already fully unloaded.
C10_SingleResident ==
    /\ Cardinality(resident) <= 1
    /\ \/ /\ current_model = None
          /\ current_tokenizer = None
          /\ current_model_name = None
          /\ resident = {}
       \/ \E n \in ModelNames :
             /\ current_model = n
             /\ current_tokenizer = n
             /\ current_model_name = n
             /\ resident = {n}
    /\ ml_loading # None => resident = {}

\* load_model was called while another identity was resident and succeeded
C10_Witness ==
    /\ ml_last = "returned"
    /\ ml_before # None
    /\ current_model_name # None
    /\ ml_before # current_model_name

\* errors raised by the stage-1 call (Stage1Mistral.analyze)
Stage1Errors == {"stage1_load_error", "stage1_infer_error"}

\* C3: when the stage-1 call of Mode B raises, then at the moment the caller
\* receives the error no model is loaded and the error is the original one.
C3_Stage1FailureUnloads ==
    [][\A q \in Queries :
          (/\ b_outcome[q] = "none"
           /\ b_outcome'[q] = "raised"
           /\ b_err[q] \in Stage1Errors)
          => /\ ~IsModelLoaded'
             /\ resident' = {}
             /\ b_raised'[q] = b_err[q]]_vars

\* a call whose stage-1 inference raised (with the model loaded) has ended
C3_Witness ==
    \E q \in Queries :
        /\ b_outcome[q] = "raised"
        /\ b_raised[q] = "stage1_infer_error"

\* C4: Mode B leaves no resource resident on any exit path: whenever no call
\* runs (control is with the callers) nothing is loaded, and a call about to
\* return or to re-raise has already run the unload.
C4_NoResidentOnExit ==
    /\ b_running = None => (~IsModelLoaded /\ resident = {})
    /\ \A q \in Queries :
          b_pc[q] \in {"return", "reraise"} => (~IsModelLoaded /\ resident = {})

\* one call returned a report, another ended with resource exhaustion
C4_Witness ==
    \E q1 \in Queries, q2 \in Queries :
        /\ b_outcome[q1] = "report"
        /\ b_outcome[q2] = "raised"
        /\ b_raised[q2] = "no_model_loaded"

\* C7: every FinalReport of a completed synthesis has a non-empty
\* action_plan (Mode B, Stage2Llama.synthesize).
C7_ActionPlanNonEmpty ==
    \A q \in Queries : b_outcome[q] = "report" => Len(b_plan[q]) >= 1

\* the stage-1 agents whose analyze task returned / raised
Survivors == {a \in Stage1AgentSet : a_results[a].status = "ok"}
AfterGather == a_pc \in {"circuit", "confidence", "synth"}
                  \/ (a_pc = "done" /\ a_err # "context_error")

\* C5: every Mode A run with at least one surviving stage-1 result ends in
\* a returned FinalReport, never in a raised error, whatever the synthesis
\* provider answered
C5_ReportWhenSurvivor ==
    (a_pc = "done" /\ Len(a_outputs) >= 1) => a_outcome = "report"

\* C6: a Mode A run in which all four stage-1 agents failed ends in a
\* raised error, and the synthesis agent is never called on the empty list
C6_ZeroSurvivorsFatal ==
    (a_pc = "done" /\ a_err # "context_error" /\ Survivors = {})
        => (a_outcome = "raised" /\ ~a_synth.called)

\* C8: stage-1 failures are isolated: the run goes on to synthesis whatever
\* subset of agents failed, and the list handed to the circuit breaker, the
\* confidence engine and the synthesis agent holds exactly one output per
\* agent that returned, carrying what it returned, and none of a failed agent
C8_SurvivorsExact ==
    /\ a_err # "agent_error"
    /\ AfterGather =>
          /\ Len(a_outputs) = Cardinality(Survivors)
          /\ \A a \in Stage1AgentSet :
                Cardinality({i \in DOMAIN a_outputs :
                                a_outputs[i].agent_id = a})
                   = IF a_results[a].status = "ok" THEN 1 ELSE 0
          /\ \A i \in DOMAIN a_outputs :
                /\ a_outputs[i].risk_level
                      = a_results[a_outputs[i].agent_id].risk_level
                /\ a_outputs[i].key_drivers
                      = a_results[a_outputs[i].agent_id].key_drivers
    /\ (AfterGather /\ a_pc # "circuit") => a_cb_input = a_outputs
    /\ (AfterGather /\ a_pc \in {"synth", "done"}) =>
          DOMAIN a_confmap = Survivors
    /\ (a_pc = "done" /\ a_err # "context_error") =>
          /\ a_synth.called
          /\ a_synth.outputs = a_outputs
          /\ DOMAIN a_synth.confmap = Survivors

C8_Witness ==
    /\ a_pc = "done"
    /\ a_synth.called
    /\ Len(a_synth.outputs) = 2
    /\ a_results["RiskAgent"].status = "failed"
    /\ a_results["TechnicalAgent"].status = "failed"
    /\ a_results["MacroAgent"].status = "ok"
    /\ a_results["SentimentAgent"].status = "ok"

\* the branches of the outer gather that failed, and whether a result of
\* task i sits in a bucket
FailedTasks == {i \in DOMAIN c_res : c_res[i].done /\ c_res[i].failed}
InMarketBucket(i) == \E j \in DOMAIN c_market : c_market[j].task = i
MacroTaskOk == \E i \in DOMAIN c_res :
                  c_res[i].origin = "macro" /\ c_res[i].done /\ ~c_res[i].failed
GatherOver == c_pc = "gather" /\ \A i \in DOMAIN c_res : c_res[i].done

\* build_context goes on to return whatever the branches did, and no result
\* of a failed market, macro or news task is in a bucket
BranchesExcluded ==
    /\ GatherOver => ENABLED CtxAssemble
    /\ c_pc = "done" =>
          \A i \in FailedTasks :
             /\ ~InMarketBucket(i)
             /\ c_res[i].origin = "macro" => DOMAIN c_macro = {}
             /\ c_res[i].origin = "news" => DOMAIN c_news = {}

C11_UnloadIdempotent ==
    [][(ml_last' = "unloaded" /\ ml_ops' = ml_ops + 1) =>
          /\ current_model' = None
          /\ current_tokenizer' = None
          /\ current_model_name' = None
          /\ resident' = {}
          /\ ml_run.count >= 1 =>
                /\ current_model = None
                /\ UNCHANGED <<current_model, current_tokenizer,
                               current_model_name, resident, ml_loading>>]_vars

\* two unload_model calls in a row, the first one made with a model loaded
C11_Witness ==
    /\ ml_last = "unloaded"
    /\ ml_run.count = 2
    /\ ml_run.from # None
    /\ current_model_name = None

\* the stage whose load_model calls b_tried[q] holds
LoadErrors == {"stage1_load_error", "no_model_loaded"}
Stage2Errors == {"no_model_loaded", "model_missing", "validation_error",
                 "stage2_infer_error"}
Caught(q) == b_pc[q] \in {"except", "reraise"}
InStage1(q) ==
    \/ b_pc[q] \in {"s1_loading", "s1_infer", "s1_unload", "confidence",
                    "s2_check"}
    \/ Caught(q) /\ b_err[q] \in Stage1Errors
InStage2(q) ==
    \/ b_pc[q] \in {"s2_try", "s2_loading", "s2_get", "s2_infer",
                    "s2_unload", "return"}
    \/ Caught(q) /\ b_err[q] \in Stage2Errors
\* the stage's loading is over and its load did not raise
PastLoad(q) ==
    \/ b_pc[q] \in {"s1_infer", "s1_unload", "confidence", "s2_check",
                    "s2_get", "s2_infer", "s2_unload", "return"}
    \/ Caught(q) /\ b_err[q] \notin LoadErrors /\ b_err[q] # "compress_error"
                 /\ b_err[q] # "context_error"
\* the identities the stage may load, in order of preference
FallbackList(q) ==
    IF InStage1(q) THEN <<Stage1ModelName>> ELSE Stage2ModelNames

\* C12: in each stage of Mode B the identities are tried in list order,
\* none after one that loaded, the stage goes on with the identity that
\* loaded, and the load error is raised only after every identity failed
C12_FallbackOrder ==
    \A q \in Queries : (InStage1(q) \/ InStage2(q)) =>
        /\ Len(b_tried[q]) <= Len(FallbackList(q))
        /\ \A i \in DOMAIN b_tried[q] :
              /\ b_tried[q][i].name = FallbackList(q)[i]
              /\ b_tried[q][i].ok => i = Len(b_tried[q])
        /\ (Caught(q) /\ b_err[q] \in LoadErrors) =>
              /\ Len(b_tried[q]) = Len(FallbackList(q))
              /\ \A i \in DOMAIN b_tried[q] : ~b_tried[q][i].ok
        /\ PastLoad(q) =>
              /\ b_tried[q] # <<>>
              /\ b_tried[q][Len(b_tried[q])].ok
        /\ b_pc[q] \in {"s1_infer", "s2_get", "s2_infer"} =>
              current_model_name = b_tried[q][Len(b_tried[q])].name

\* stage 2 runs on its third identity after the first two failed to load
C12_Witness ==
    \E q \in Queries :
        /\ b_pc[q] = "s2_infer"
        /\ Len(b_tried[q]) = 3
        /\ ~b_tried[q][1].ok
        /\ ~b_tried[q][2].ok
        /\ current_model_name = Stage2ModelNames[3]

\* C13: for agent outputs whose confidence, source reliability and source
\* freshness lie in [0,1] and a context overall freshness in [0,1], the map
\* compute_dynamic_confidence returns has one value per agent and every
\* value lies in [0,1]
C13_ConfidenceInRange ==
    fn_done =>
        /\ DOMAIN fn_out = {fn_in.outputs[i].agent_id :
                               i \in DOMAIN fn_in.outputs}
        /\ \A id \in DOMAIN fn_out : fn_out[id] >= 0 /\ fn_out[id] <= 100

\* a call with two outputs, one of full confidence backed by a fresh,
\* reliable FRED source, under a fresh context
C13_Witness ==
    /\ fn_done
    /\ Len(fn_in.outputs) = 2
    /\ fn_in.overall = 100
    /\ fn_in.outputs[1].confidence = 100
    /\ fn_in.outputs[1].source_summary =
          <<[source |-> "FRED", freshness |-> 100, reliability |-> 100]>>
    /\ fn_out["RiskAgent"] > 0

\* C14: calculate_inter_agent_agreement returns exactly 1.0 for fewer than
\* two outputs and for any number of outputs that all have the same one of
\* the four risk levels
C14_AgreementOne ==
    fn_done =>
        ((\/ Len(fn_in) < 2
          \/ \E r \in RiskLevels :
                \A i \in DOMAIN fn_in : fn_in[i].risk_level = r)
            => fn_out = 100)

\* three outputs, all critical
C14_Witness ==
    /\ fn_done
    /\ Len(fn_in) = 3
    /\ \A i \in DOMAIN fn_in : fn_in[i].risk_level = "critical"
    /\ fn_out = 100

\* the identities i and j of the list are the two sides of a rule of the
\* table, and each of them has one output in the list
RulePair(a, b) ==
    \E k \in DOMAIN ContradictionRules :
        ContradictionRules[k].a1 = a /\ ContradictionRules[k].a2 = b
Single(outputs, a) ==
    Cardinality({i \in DOMAIN outputs : outputs[i].agent_id = a}) = 1
\* the call returned an event that names both identities
EventNames(a, b) ==
    fn_out.detected /\ {a, b} \subseteq fn_out.conflicting_agents

\* C15 as stated: whenever the list holds a low output and a critical output
\* of two distinct identities, one event is returned and names both
C15_LowCriticalAnyPair ==
    fn_done =>
        \A i, j \in DOMAIN fn_in :
            (/\ fn_in[i].agent_id # fn_in[j].agent_id
             /\ fn_in[i].risk_level = "low"
             /\ fn_in[j].risk_level = "critical")
                => EventNames(fn_in[i].agent_id, fn_in[j].agent_id)

\* C15 as the code has it: whenever the list holds a low output and a
\* critical output of the two identities of a rule of the table, each with
\* one output in the list, one event is returned and names both
C15_LowCriticalRulePair ==
    fn_done =>
        \A i, j \in DOMAIN fn_in :
            (/\ RulePair(fn_in[i].agent_id, fn_in[j].agent_id)
             /\ Single(fn_in, fn_in[i].agent_id)
             /\ Single(fn_in, fn_in[j].agent_id)
             /\ fn_in[i].risk_level = "low"
             /\ fn_in[j].risk_level = "critical")
                => EventNames(fn_in[i].agent_id, fn_in[j].agent_id)

\* RiskAgent low against TechnicalAgent critical, no antonym in the drivers
C15_Witness ==
    /\ fn_done
    /\ fn_in = <<[agent_id |-> "RiskAgent", risk_level |-> "low",
                  key_drivers |-> {}],
                 [agent_id |-> "TechnicalAgent", risk_level |-> "critical",
                  key_drivers |-> {}]>>
    /\ fn_out.detected
    /\ fn_out.conflicting_agents = {"RiskAgent", "TechnicalAgent"}

\* C16 as stated: whenever the list holds an output whose drivers contain
\* "bullish" and an output of another identity whose drivers contain
\* "bearish", whatever their risk levels, an event is returned that names
\* both
C16_BullishBearishAnyPair ==
    fn_done =>
        \A i, j \in DOMAIN fn_in :
            (/\ fn_in[i].agent_id # fn_in[j].agent_id
             /\ "bullish" \in fn_in[i].key_drivers
             /\ "bearish" \in fn_in[j].key_drivers)
                => EventNames(fn_in[i].agent_id, fn_in[j].agent_id)

\* C16 as the code has it: whenever the list holds an output whose drivers
\* contain "bullish" and an output whose drivers contain "bearish", of the
\* two identities of a rule of the table, each with one output in the list,
\* an event is returned that names both, whatever the risk levels
C16_BullishBearishRulePair ==
    fn_done =>
        \A i, j \in DOMAIN fn_in :
            (/\ RulePair(fn_in[i].agent_id, fn_in[j].agent_id)
             /\ Single(fn_in, fn_in[i].agent_id)
             /\ Single(fn_in, fn_in[j].agent_id)
             /\ "bullish" \in fn_in[i].key_drivers
             /\ "bearish" \in fn_in[j].key_drivers)
                => EventNames(fn_in[i].agent_id, fn_in[j].agent_id)

\* SentimentAgent bullish against MacroAgent bearish at the same risk level
C16_Witness ==
    /\ fn_done
    /\ fn_in = <<[agent_id |-> "SentimentAgent", risk_level |-> "low",
                  key_drivers |-> {"bullish"}],
                 [agent_id |-> "MacroAgent", risk_level |-> "low",
                  key_drivers |-> {"bearish"}]>>
    /\ fn_out.detected
    /\ fn_out.conflicting_agents = {"SentimentAgent", "MacroAgent"}
    /\ fn_out.arbiter = "RiskAgent"

\* C17: check_contradictions returns no event for the empty list and for a
\* single output, whatever its identity, risk level and key drivers
C17_NoEventBelowTwo ==
    fn_done => (Len(fn_in) < 2 => fn_out = NoEvent)

\* a call with one critical output
C17_Witness ==
    /\ fn_done
    /\ Len(fn_in) = 1
    /\ fn_in[1].risk_level = "critical"
    /\ fn_in[1].key_drivers = {"bearish"}
    /\ ~fn_out.detected

\* C18: calculate_freshness_score is 1.0 at age 0, 0.0 at every age equal
\* to or beyond max_age_hours, exactly 0.5 at age max_age_hours/2, equal to
\* 1 - age/max_age_hours at every age strictly between 0 and max_age_hours,
\* and always within [0,1].
C18_FreshnessLinear ==
    fn_done =>
        LET age == fn_in.age_minutes
            max_age == 60 * fn_in.max_age_hours
        IN /\ age = 0 => fn_out = One
           /\ age >= max_age => fn_out = 0
           /\ 2 * age = max_age => 2 * fn_out = One
           /\ (age > 0 /\ age < max_age) =>
                 fn_out * max_age = One * (max_age - age)
           /\ fn_out >= 0
           /\ fn_out <= One

\* the score of a timestamp older than max_age_hours has been computed
C18_Witness ==
    /\ fn_done
    /\ fn_in.age_minutes > 60 * fn_in.max_age_hours
    /\ fn_out = 0

\* the categories whose score _calculate_freshness_scores computes for the
\* context built from the input
ComputedCategories ==
    (IF fn_in.market # "none" THEN {"market"} ELSE {})
       \cup (IF fn_in.macro = "data" THEN {"macro"} ELSE {})
       \cup (IF fn_in.news = "dated" THEN {"news"} ELSE {})

ScoreOrZero(k) == IF k \in DOMAIN fn_out.scores THEN fn_out.scores[k] ELSE 0

\* C19: whenever _calculate_freshness_scores returns, "overall" is the
\* arithmetic mean of exactly the per-category scores (market, macro, news)
\* that were computed, and 0.5 when none was computed; with a macro score of
\* 0.9 and no market or news score, overall is 0.9.
C19_OverallIsMean ==
    (fn_done /\ ~fn_out.raised) =>
        /\ DOMAIN fn_out.scores = ComputedCategories \cup {"overall"}
        /\ ComputedCategories = {} => fn_out.scores["overall"] = Half
        /\ ComputedCategories # {} =>
              fn_out.scores["overall"] * Cardinality(ComputedCategories)
                 = ScoreOrZero("market") + ScoreOrZero("macro")
                      + ScoreOrZero("news")
        /\ (ComputedCategories = {"macro"}
               /\ 10 * fn_out.scores["macro"] = 9 * One) =>
              10 * fn_out.scores["overall"] = 9 * One

\* only macro data, 16.8 hours old: macro score 0.9, overall 0.9
C19_Witness ==
    /\ fn_done
    /\ ~fn_out.raised
    /\ fn_in.market = "none"
    /\ fn_in.macro = "data"
    /\ fn_in.news \in {"none", "undated"}
    /\ DOMAIN fn_out.scores = {"macro", "overall"}
    /\ 10 * fn_out.scores["macro"] = 9 * One
    /\ 10 * fn_out.scores["overall"] = 9 * One

\* C20: a wait_if_needed call on a name for which no limit was registered
\* is a no-op: the caller is not suspended and the call history of every
\* name is left as it was.
C20_UnregisteredNoOp ==
    [][(rl_calls' = rl_calls + 1 /\ ~Registered(rl_last'.name)) =>
          /\ call_history' = call_history
          /\ rl_pc' = rl_pc
          /\ rl_pc'[rl_last'.caller] = "idle"
          /\ rl_wake' = rl_wake]_vars

\* a call on an unregistered name has returned while the other name has a
\* limit and recorded calls
C20_Witness ==
    /\ rl_last.name \in ApiNames
    /\ ~Registered(rl_last.name)
    /\ rl_pc[rl_last.caller] = "idle"
    /\ call_history[rl_last.name] = <<>>
    /\ \E m \in ApiNames : Registered(m) /\ call_history[m] # <<>>

\* the steps of process_query (orchestrator_hf.py lines 72-104) in the order
\* of the source
ModeBOrder == <<"stage1_load", "stage1_call", "unload", "confidence",
                "stage2_load", "synthesis_call", "unload">>

IsPrefix(s, t) == Len(s) <= Len(t) /\ \A i \in DOMAIN s : s[i] = t[i]

\* C21: a Mode B run that returns its report has done, in this order:
\* stage-1 load, stage-1 call, unload, confidence scoring, stage-2 load,
\* synthesis call, unload; while no error is in flight the steps done so far
\* are a prefix of that order; nothing is resident when the confidence
\* scoring runs nor when the stage-2 load begins.
C21_StepOrder ==
    \A q \in Queries :
        /\ b_outcome[q] = "report" => b_trace[q] = ModeBOrder
        /\ b_err[q] = None => IsPrefix(b_trace[q], ModeBOrder)
        /\ b_pc[q] \in {"confidence", "s2_check", "s2_try", "s2_loading"} =>
              /\ resident = {}
              /\ ~IsModelLoaded
              /\ current_model_name = None

\* a run has returned its report after a stage-2 fallback
C21_Witness ==
    \E q \in Queries :
        /\ b_outcome[q] = "report"
        /\ b_trace[q] = ModeBOrder
        /\ b_s2idx[q] > 1

\* call q is between a stage's load_model and the end of that stage's
\* inference
StageWindow(q) ==
    b_pc[q] \in {"s1_loading", "s1_infer", "s2_loading", "s2_try", "s2_get",
                 "s2_infer"}

\* C22: with two process_query calls interleaved on one orchestrator, while
\* one call is between a stage's load and the end of that stage's inference
\* the other call takes no step (so issues no load and no unload), and each
\* inference runs against the model its own call loaded.
C22_ExclusiveResource ==
    /\ [](\A q \in Queries :
            /\ b_pc[q] = "s1_infer" =>
                  /\ HasCurrentModel
                  /\ current_model_name = Stage1ModelName
                  /\ resident = {Stage1ModelName}
            /\ b_pc[q] = "s2_infer" =>
                  /\ HasCurrentModel
                  /\ b_tried[q] # <<>>
                  /\ b_tried[q][Len(b_tried[q])].ok
                  /\ current_model_name = b_tried[q][Len(b_tried[q])].name
                  /\ resident = {current_model_name})
    /\ [][\A q \in Queries, p \in Queries :
             (p # q /\ StageWindow(q)) =>
                /\ b_pc'[p] = b_pc[p]
                /\ b_trace'[p] = b_trace[p]]_vars

\* one call runs its stage-2 inference while the other call is suspended in
\* build_context
C22_Witness ==
    \E q \in Queries, p \in Queries :
        /\ p # q
        /\ b_pc[q] = "s2_infer"
        /\ b_pc[p] = "context"

C24_WaitTerminates ==
    /\ [][\A c \in Callers :
             /\ (rl_pc[c] = "idle" /\ rl_pc'[c] = "sleeping") =>
                   /\ Registered(rl_name'[c])
                   /\ rl_wake'[c] > now
                   /\ rl_wake'[c] <= now + limits[rl_name'[c]].time_window
                                         + Buffer
             /\ (rl_pc[c] = "sleeping" /\ rl_pc'[c] # rl_pc[c]) =>
                   /\ rl_pc'[c] = "idle"
                   /\ now >= rl_wake[c]
                   /\ call_history' =
                         [call_history EXCEPT
                             ![rl_name[c]] =
                                 Append(call_history[rl_name[c]], now)]
             /\ (rl_pc[c] = "sleeping" /\ rl_pc'[c] = "sleeping") =>
                   rl_wake'[c] = rl_wake[c]
             /\ (/\ rl_calls' = rl_calls + 1
                 /\ rl_last'.caller = c
                 /\ Registered(rl_last'.name)
                 /\ rl_pc'[c] = "idle") =>
                   /\ call_history'[rl_last'.name] # <<>>
                   /\ call_history'[rl_last'.name]
                         [Len(call_history'[rl_last'.name])] = now
                   /\ Len(call_history'[rl_last'.name])
                         <= Len(call_history[rl_last'.name]) + 1]_vars
    /\ \A c \in Callers : (rl_pc[c] = "sleeping") ~> (rl_pc[c] = "idle")

\* a caller that was suspended on a saturated name has resumed, recorded
\* its call and returned while the quota is still saturated
C24_Witness ==
    \E c \in Callers :
        /\ rl_pc[c] = "idle"
        /\ rl_wake[c] > 0
        /\ now >= rl_wake[c]
        /\ Registered(rl_name[c])
        /\ call_history[rl_name[c]] # <<>>
        /\ call_history[rl_name[c]][Len(call_history[rl_name[c]])]
              >= rl_wake[c]
        /\ Len(Pruned(rl_name[c])) >= limits[rl_name[c]].max_calls

RuleHit(k) ==
    /\ ContradictionRules[k].a1 \in OutputIds(fn_in)
    /\ ContradictionRules[k].a2 \in OutputIds(fn_in)
    /\ IsContradictory(AgentDict(fn_in)[ContradictionRules[k].a1],
                       AgentDict(fn_in)[ContradictionRules[k].a2])

\* C26: the arbiter of an emitted event is the arbiter of the first rule, in
\* the order of the rule table, whose pair is contradictory; it is never the
\* default SynthesisAgent, always MacroAgent or RiskAgent; and an event is
\* emitted exactly when some rule's pair is contradictory.
C26_FirstRuleArbiter ==
    fn_done =>
        /\ fn_out.detected <=> \E k \in DOMAIN ContradictionRules : RuleHit(k)
        /\ fn_out.detected =>
              /\ \E k \in DOMAIN ContradictionRules :
                    /\ RuleHit(k)
                    /\ \A j \in 1..(k - 1) : ~RuleHit(j)
                    /\ fn_out.arbiter = ContradictionRules[k].arbiter
              /\ fn_out.arbiter # "SynthesisAgent"
              /\ fn_out.arbiter \in {"MacroAgent", "RiskAgent"}

\* the Macro/Sentiment pair alone is contradictory: the first rule found is
\* the third of the table
C26_Witness ==
    /\ fn_done
    /\ fn_out.detected
    /\ Len(fn_in) = 4
    /\ ~RuleHit(1)
    /\ RuleHit(3)
    /\ fn_out.arbiter = "RiskAgent"

\* C28: the arbiter named in a contradiction event is never one of the
\* event's conflicting identities, also when the Risk/Technical pair and the
\* Macro/Sentiment pair are contradictory at once.
C28_ArbiterNotConflicting ==
    (fn_done /\ fn_out.detected) =>
        fn_out.arbiter \notin fn_out.conflicting_agents

\* the payload of task i is in the macro bucket, is the news bucket
InMacroBucket(i) ==
    /\ DOMAIN c_res[i].body # {}
    /\ \A k \in DOMAIN c_res[i].body :
          k \in DOMAIN c_macro /\ c_macro[k] = c_res[i].body[k]
IsNewsBucket(i) == DOMAIN c_res[i].body # {} /\ c_news = c_res[i].body

\* C27: in the context build_context returns, every payload a branch
\* returned without failing sits in exactly one bucket, the one of its
\* shape: market list for a symbol field, macro data for a region or series
\* field, news data for a results or query field; none is left out of all
\* three buckets and none is in a bucket of another category.
C27_EveryPayloadClassified ==
    c_pc = "done" =>
        \A i \in DOMAIN c_res :
            ~c_res[i].failed =>
                LET b == c_res[i].body
                    inMarket == InMarketBucket(i)
                    inMacro == c_res[i].origin = "macro" /\ InMacroBucket(i)
                    inNews == c_res[i].origin = "news" /\ IsNewsBucket(i)
                IN /\ "symbol" \in DOMAIN b => inMarket /\ ~inMacro /\ ~inNews
                   /\ ("region" \in DOMAIN b \/ "series_id" \in DOMAIN b) =>
                         inMacro /\ ~inMarket /\ ~inNews
                   /\ ("results" \in DOMAIN b \/ "query" \in DOMAIN b) =>
                         inNews /\ ~inMarket /\ ~inMacro
                   /\ inMarket \/ inMacro \/ inNews

\* C29: the data_freshness_score of the returned report equals the overall
\* freshness of the assembled context in both modes, so for one context
\* Mode B reports the same score as Mode A.
C29_SameFreshnessScore ==
    fn_done =>
        /\ fn_out.mode_a = fn_in.overall
        /\ fn_out.mode_b = fn_in.overall
        /\ fn_out.mode_b = fn_out.mode_a

\* C30: a load_model that raises leaves the loader unloaded: model,
\* tokenizer and name are unset and no resource is resident, also when a
\* resource was resident before the call (it was evicted before the load
\* started and is not restored); the error reaches the caller.
C30_FailedLoadUnloaded ==
    /\ ml_loading # None =>
          /\ resident = {}
          /\ current_model = None
          /\ current_model_name = None
    /\ ml_last = "raised" =>
          /\ ml_loading = None
          /\ current_model = None
          /\ current_tokenizer = None
          /\ current_model_name = None
          /\ resident = {}
          /\ ~IsModelLoaded
          /\ ~HasCurrentModel
          /\ ml_before # None => ~IsModelLoadedNamed(ml_before)
C30_Witness ==
    /\ ml_last = "raised"
    /\ ml_before # None
    /\ resident = {}
    /\ current_model_name = None

====
